---- MODULE Spec2Model ----
(***************************************************************************)
(* Model of the hdl_sv file server (library crate: src/src/http.rs,        *)
(* src/src/response.rs and src/src/server.rs; legacy binary:               *)
(* src/src/main.rs).                                                       *)
(*                                                                         *)
(* Several specifications share this module.                               *)
(*   RouteSpec     the per-request pipeline of http.rs as a pure function  *)
(*                 of the request, the configured credentials and the      *)
(*                 served directory: Init draws the inputs, HandleRequest  *)
(*                 applies handle_client's routing to them.                *)
(*   Spec          the concurrent server of server.rs at one instant: the  *)
(*                 accept loop, the rate limiter, the thread pool and      *)
(*                 every step of its workers, the statistics counters.     *)
(*   TimedSpec     the same server over a discrete clock, with the cleanup *)
(*                 thread, each job taken as one step.                     *)
(*   ShutdownSpec  run_server started with a shutdown channel, every step  *)
(*                 of every thread.                                        *)
(*   DrainSpec     the same with each job taken as one step, under the     *)
(*                 fairness of the scheduler.                              *)
(*   RangeSpec     one GET of a file with or without a Range header,       *)
(*                 answered by serve_file of main.rs or by the library.    *)
(*   ConnSpec      one connection of the library from its first byte:      *)
(*                 read_headers read by read, from_stream, the router      *)
(*                 and what is written back.                               *)
(*   DecodeSpec    Request::decode_url applied to every raw path of a few  *)
(*                 characters.                                             *)
(*   HeaderSpec    the header loops of from_stream and of main.rs applied  *)
(*                 to a few header lines, and the lookups made afterwards. *)
(*   ListingSpec   generate_directory_listing applied to every small       *)
(*                 directory.                                              *)
(*   StatsSpec     Spec together with the statistics reporter thread, each *)
(*                 lock of get_stats a step.                               *)
(***************************************************************************)
EXTENDS Integers, Sequences, FiniteSets, TLC

VARIABLES
    \* ---- RouteSpec ----
    req,        \* the parsed Request: method, path, authorization header
    cfg,        \* the configured credentials (cli.username, cli.password)
    resp,       \* what handle_client wrote to the connection
    rpc,        \* "start" before handle_client ran, "done" after
    \* ---- Spec ----
    now,        \* Instant::now(), in ticks
    connections,\* RateLimiter.connections : ip -> ConnectionInfo (or absent)
    conns,      \* every connection accepted so far, in order of accept
    acceptor,   \* position of the accept loop of run_server
    queue,      \* jobs sent into the pool's channel, not yet received
    workers,    \* each worker thread's position and current job
    stats,      \* ServerStats counters
    lastSweep,  \* time the cleanup thread last woke up (its start at first)
    recent,     \* per ip: admissions in each of the last RetentionTicks instants
    last,       \* the last rate-limiter call: operation, address, effect
    \* ---- shutdown of run_server ----
    signal,     \* TRUE once () was sent on the shutdown channel
    loop,       \* where run_server is around its accept loop
    lateIds,    \* accepted connections that arrived after the signal was sent
    atClose,    \* jobs queued and running when the pool's sender was dropped
    \* ---- RangeSpec ----
    rangeReq,   \* the file, the Range header and the serving code of a request
    wire,       \* what the serving code wrote to the connection
    rangePc,    \* "start" before the file was served, "done" after
    \* ---- ConnSpec ----
    peer,       \* what the client sends on one connection, and how it ends
    rd,         \* read_headers: bytes read so far, and where the handler is
    out,        \* what the handler wrote to the connection, write by write
    \* ---- pure functions, the statistics reporter ----
    call,       \* one call of a function: its name, its argument, its result
    snap        \* get_stats of the reporter thread: where it is, what it read

rangeVars  == <<rangeReq, wire, rangePc>>
connVars   == <<peer, rd, out>>
callVars   == <<call, snap>>
routeVars  == <<req, cfg, resp, rpc, rangeReq, wire, rangePc, peer, rd, out, call, snap>>
shutVars   == <<signal, loop, lateIds, atClose>>
serverVars == <<now, connections, conns, acceptor, queue, workers, stats,
                lastSweep, recent, last, signal, loop, lateIds, atClose>>
vars       == <<req, cfg, resp, rpc, now, connections, conns, acceptor, queue,
                workers, stats, lastSweep, recent, last, signal, loop, lateIds,
                atClose, rangeReq, wire, rangePc, peer, rd, out, call, snap>>

(***************************************************************************)
(* Generic helpers                                                         *)
(***************************************************************************)
None == <<>>

Some(v) == <<v>>

IsSome(o) == Len(o) = 1

Unwrap(o) == o[1]

RECURSIVE SeqsUpTo(_, _)
SeqsUpTo(S, n) ==
    IF n = 0 THEN {<<>>}
    ELSE LET shorter == SeqsUpTo(S, n - 1)
         IN  shorter \cup {Append(s, x) : s \in {t \in shorter : Len(t) = n - 1}, x \in S}

StartsWith(s, prefix) ==
    /\ Len(s) >= Len(prefix)
    /\ SubSeq(s, 1, Len(prefix)) = prefix

Drop(s, n) == SubSeq(s, n + 1, Len(s))

(***************************************************************************)
(* Request paths.  A path is a sequence of tokens; the string it stands    *)
(* for is the concatenation of the tokens.  "/" is the separator, "." and  *)
(* ".." are one and two dots, every other token is a name without "/".     *)
(***************************************************************************)
MaxPathLen == 4

PathTokens == {"/", ".", "..", "d", "a.txt", "lnk", "_static", "_health"}

\* Longer requests of interest, beyond the exhaustive enumeration.
ExtraPaths ==
    { <<"/", "_status">>,
      <<"/", "c.zip">>,
      <<"/", "d", "/", "c.zip">>,
      <<"/", "d", "/", "..", "/", "a.txt">>,
      <<"/", "d", "/", "..", "/", "..", "/", "a.txt">>,
      <<"/", "d", "/", ".", "/", "a.txt">>,
      <<"/", "lnk", "/", "d", "/", "..", "/", "a.txt">>,
      <<"/", "_static", "/", "directory", "/", "styles.css">>,
      <<"/", "_static", "/", "..", "/", "..", "/", "a.txt">>,
      <<"/", "d", "/", "d", "/", "c.zip">> }

Paths == SeqsUpTo(PathTokens, MaxPathLen) \cup ExtraPaths

Methods == {"GET", "POST"}

\* request.path.strip_prefix('/').unwrap_or(&request.path)
StripLeadingSlash(path) ==
    IF Len(path) > 0 /\ path[1] = "/" THEN Drop(path, 1) ELSE path

\* The maximal runs of tokens between separators, in order (empty runs kept).
RECURSIVE SplitSegments(_, _)
SplitSegments(path, cur) ==
    IF path = <<>> THEN <<cur>>
    ELSE IF path[1] = "/" THEN <<cur>> \o SplitSegments(Tail(path), <<>>)
    ELSE SplitSegments(Tail(path), Append(cur, path[1]))

\* Number of dots of a segment made of dots only, 0 for any other segment.
RECURSIVE DotCount(_)
DotCount(seg) ==
    IF seg = <<>> THEN 0
    ELSE LET rest == DotCount(Tail(seg))
             here == IF seg[1] = "." THEN 1 ELSE IF seg[1] = ".." THEN 2 ELSE 0
         IN  IF here = 0 \/ (Len(seg) > 1 /\ rest = 0) THEN 0 ELSE here + rest

\* std::path::Component of one segment; empty segments and "." produce no
\* component that normalize_path looks at.
ComponentKind(seg) ==
    IF seg = <<>> THEN "Skip"
    ELSE IF DotCount(seg) = 1 THEN "CurDir"
    ELSE IF DotCount(seg) = 2 THEN "ParentDir"
    ELSE "Normal"

\* The file name a Normal segment spells; names of several tokens are not
\* names of any entry of the modelled directory tree.
NameOf(seg) == IF Len(seg) = 1 THEN seg[1] ELSE "<compound>"

\* Path::components() as the sequence of segments with their kinds.
Components(path) ==
    LET segs == SplitSegments(path, <<>>)
    IN  [i \in 1..Len(segs) |-> [kind |-> ComponentKind(segs[i]), name |-> NameOf(segs[i])]]

(***************************************************************************)
(* normalize_path (http.rs:224-240)                                        *)
(***************************************************************************)
RECURSIVE NormalizeFrom(_, _, _)
NormalizeFrom(comps, i, stack) ==
    IF i > Len(comps) THEN [ok |-> TRUE, path |-> stack]
    ELSE IF comps[i].kind = "Normal"
         THEN NormalizeFrom(comps, i + 1, Append(stack, comps[i].name))
    ELSE IF comps[i].kind = "ParentDir"
         THEN IF stack = <<>>
              THEN [ok |-> FALSE, path |-> <<>>]
              ELSE NormalizeFrom(comps, i + 1, SubSeq(stack, 1, Len(stack) - 1))
    ELSE NormalizeFrom(comps, i + 1, stack)

\* normalize_path with the result of components.pop() ignored.
RECURSIVE NormalizeIgnoringUnderflow(_, _, _)
NormalizeIgnoringUnderflow(comps, i, stack) ==
    IF i > Len(comps) THEN [ok |-> TRUE, path |-> stack]
    ELSE IF comps[i].kind = "Normal"
         THEN NormalizeIgnoringUnderflow(comps, i + 1, Append(stack, comps[i].name))
    ELSE IF comps[i].kind = "ParentDir"
         THEN NormalizeIgnoringUnderflow(comps, i + 1,
                  IF stack = <<>> THEN <<"..">> ELSE SubSeq(stack, 1, Len(stack) - 1))
    ELSE NormalizeIgnoringUnderflow(comps, i + 1, stack)

normalize_path_keeping_parent(path) ==
    NormalizeIgnoringUnderflow(Components(path), 1, <<>>)

normalize_path(path) == NormalizeFrom(Components(path), 1, <<>>)

(***************************************************************************)
(* The served directory.  Keys are paths relative to base_dir (the        *)
(* canonical root); "outside" says that the entry is reached through a     *)
(* symbolic link whose target is not under the root.  exists(), is_dir(),  *)
(* is_file() and File::open all follow symbolic links.                     *)
(***************************************************************************)
FsEntries ==
    { [path |-> <<>>,               kind |-> "dir",  outside |-> FALSE],
      [path |-> <<"a.txt">>,        kind |-> "file", outside |-> FALSE],
      [path |-> <<"c.zip">>,        kind |-> "file", outside |-> FALSE],
      [path |-> <<"d">>,            kind |-> "dir",  outside |-> FALSE],
      [path |-> <<"d", "a.txt">>,   kind |-> "file", outside |-> FALSE],
      [path |-> <<"d", "c.zip">>,   kind |-> "file", outside |-> FALSE],
      [path |-> <<"lnk">>,          kind |-> "dir",  outside |-> TRUE],
      [path |-> <<"lnk", "a.txt">>, kind |-> "file", outside |-> TRUE],
      [path |-> <<"lnk", "d">>,     kind |-> "dir",  outside |-> TRUE] }

Missing == [path |-> <<>>, kind |-> "missing", outside |-> FALSE]

\* fs::metadata(base_dir.join(rel)), following links.
Stat(rel) ==
    IF \E e \in FsEntries : e.path = rel
    THEN CHOOSE e \in FsEntries : e.path = rel
    ELSE Missing

\* The configured patterns ("*.txt" in the tests) against the file name.
AllowedNames == {"a.txt"}

\* An allow-list that lets every file through.
MatchesAnyPattern(rel) == TRUE

MatchesAllowedExtension(rel) == rel # <<>> /\ rel[Len(rel)] \in AllowedNames

\* full_path.starts_with(base_dir): a component-wise prefix test of
\* base_dir.join(safe_path) against base_dir.  full_path is written as the
\* components of base_dir followed by those of safe_path.
BaseDir == <<"srv", "root">>

FullPath(safe) == BaseDir \o safe

(***************************************************************************)
(* Basic authentication (http.rs:404-430).  Header values and credentials  *)
(* are byte strings; the base64 payload is a string of symbols 0..63,      *)
(* the padding symbol and a symbol outside the alphabet.                   *)
(***************************************************************************)
Pad == 64

BadSymbol == 65

Colon == 58

RECURSIVE B64Encode(_)
B64Encode(bytes) ==
    IF Len(bytes) = 0 THEN <<>>
    ELSE IF Len(bytes) = 1
         THEN <<bytes[1] \div 4, (bytes[1] % 4) * 16, Pad, Pad>>
    ELSE IF Len(bytes) = 2
         THEN <<bytes[1] \div 4,
                (bytes[1] % 4) * 16 + bytes[2] \div 16,
                (bytes[2] % 16) * 4,
                Pad>>
    ELSE <<bytes[1] \div 4,
           (bytes[1] % 4) * 16 + bytes[2] \div 16,
           (bytes[2] % 16) * 4 + bytes[3] \div 64,
           bytes[3] % 64>> \o B64Encode(Drop(bytes, 3))

DecodeErr == [ok |-> FALSE, bytes |-> <<>>]

\* general_purpose::STANDARD.decode: canonical padding is required and the
\* unused low bits of the last symbol must be zero.
RECURSIVE B64Decode(_)
B64Decode(syms) ==
    IF Len(syms) = 0 THEN [ok |-> TRUE, bytes |-> <<>>]
    ELSE IF Len(syms) < 4 THEN DecodeErr
    ELSE LET a == syms[1]
             b == syms[2]
             c == syms[3]
             d == syms[4]
             b1 == a * 4 + b \div 16
             b2 == (b % 16) * 16 + c \div 4
             b3 == (c % 4) * 64 + d
         IN  IF a >= Pad \/ b >= Pad THEN DecodeErr
             ELSE IF Len(syms) = 4 /\ c = Pad /\ d = Pad
                  THEN IF b % 16 = 0 THEN [ok |-> TRUE, bytes |-> <<b1>>] ELSE DecodeErr
             ELSE IF c >= Pad THEN DecodeErr
             ELSE IF Len(syms) = 4 /\ d = Pad
                  THEN IF c % 4 = 0 THEN [ok |-> TRUE, bytes |-> <<b1, b2>>] ELSE DecodeErr
             ELSE IF d >= Pad THEN DecodeErr
             ELSE LET rest == B64Decode(Drop(syms, 4))
                  IN  IF rest.ok THEN [ok |-> TRUE, bytes |-> <<b1, b2, b3>> \o rest.bytes]
                      ELSE DecodeErr

IsCont(b) == b >= 128 /\ b <= 191

\* String::from_utf8 succeeds.
RECURSIVE Utf8Valid(_)
Utf8Valid(bytes) ==
    IF Len(bytes) = 0 THEN TRUE
    ELSE LET b == bytes[1]
             n == Len(bytes)
         IN  IF b < 128 THEN Utf8Valid(Drop(bytes, 1))
             ELSE IF b >= 194 /\ b <= 223
                  THEN n >= 2 /\ IsCont(bytes[2]) /\ Utf8Valid(Drop(bytes, 2))
             ELSE IF b >= 224 /\ b <= 239
                  THEN /\ n >= 3
                       /\ IsCont(bytes[2]) /\ IsCont(bytes[3])
                       /\ (b = 224 => bytes[2] >= 160)
                       /\ (b = 237 => bytes[2] <= 159)
                       /\ Utf8Valid(Drop(bytes, 3))
             ELSE IF b >= 240 /\ b <= 244
                  THEN /\ n >= 4
                       /\ IsCont(bytes[2]) /\ IsCont(bytes[3]) /\ IsCont(bytes[4])
                       /\ (b = 240 => bytes[2] >= 144)
                       /\ (b = 244 => bytes[2] <= 143)
                       /\ Utf8Valid(Drop(bytes, 4))
             ELSE FALSE

\* Index of the first ':' of a byte string, 0 when there is none.
FirstColon(bytes) ==
    IF \E i \in 1..Len(bytes) : bytes[i] = Colon
    THEN CHOOSE i \in 1..Len(bytes) :
            bytes[i] = Colon /\ \A j \in 1..(i - 1) : bytes[j] # Colon
    ELSE 0

\* is_authenticated comparing the user name only.
is_authenticated_user_only(auth_header, user, pass) ==
    /\ IsSome(auth_header)
    /\ Unwrap(auth_header).scheme = "Basic "
    /\ LET decoded == B64Decode(Unwrap(auth_header).payload)
           k == FirstColon(decoded.bytes)
       IN  /\ decoded.ok
           /\ Utf8Valid(decoded.bytes)
           /\ k # 0
           /\ SubSeq(decoded.bytes, 1, k - 1) = user

\* auth_header is None or Some([scheme, payload]): the header value is the
\* scheme text followed by the payload symbols.
is_authenticated(auth_header, user, pass) ==
    IF ~IsSome(auth_header) THEN FALSE
    ELSE LET header == Unwrap(auth_header)
         IN  IF header.scheme # "Basic " THEN FALSE
             ELSE LET decoded == B64Decode(header.payload)
                  IN  IF ~decoded.ok THEN FALSE
                      ELSE IF ~Utf8Valid(decoded.bytes) THEN FALSE
                      ELSE LET k == FirstColon(decoded.bytes)
                           IN  IF k = 0 THEN FALSE
                               ELSE /\ SubSeq(decoded.bytes, 1, k - 1) = user
                                    /\ Drop(decoded.bytes, k) = pass

(***************************************************************************)
(* route_request and the responses of handle_client (http.rs:182-401,      *)
(* 433-510; response.rs:64-158)                                            *)
(***************************************************************************)
NoTarget == [path |-> <<>>, kind |-> "none", outside |-> FALSE]

\* Err(AppError::e): no filesystem object is handed to the caller.  "looked"
\* is the full path the filesystem was asked about, None when it was not.
RouteErr(e, looked) ==
    [ok |-> FALSE, err |-> e, status |-> 0, headers |-> <<>>, body |-> "none",
     target |-> NoTarget, looked |-> looked]

RouteOk(headers, body, target, looked) ==
    [ok |-> TRUE, err |-> "none", status |-> 200, headers |-> headers, body |-> body,
     target |-> target, looked |-> looked]

create_health_check_response ==
    RouteOk(<<"Content-Type", "Cache-Control">>, "text", NoTarget, None)

\* The embedded assets of TemplateEngine::get_static_asset.
StaticAssets ==
    { <<"directory", "/", "styles.css">>, <<"directory", "/", "script.js">>,
      <<"error", "/", "styles.css">>, <<"error", "/", "script.js">> }

get_static_asset(asset_path) == asset_path \in StaticAssets

handle_static_asset(path) ==
    LET asset_path == Drop(path, 3)
    IN  IF get_static_asset(asset_path)
        THEN RouteOk(<<"Content-Type", "Cache-Control">>, "text", NoTarget, None)
        ELSE RouteErr("NotFound", None)

\* route_request with the method restriction right after authentication.
route_request_method_first(request, username, password) ==
    IF /\ IsSome(username) /\ IsSome(password)
       /\ ~is_authenticated(request.auth, Unwrap(username), Unwrap(password))
    THEN RouteErr("Unauthorized", None)
    ELSE IF request.method # "GET"
    THEN RouteErr("MethodNotAllowed", None)
    ELSE IF request.path = <<"/", "_health">> \/ request.path = <<"/", "_status">>
    THEN create_health_check_response
    ELSE IF StartsWith(request.path, <<"/", "_static", "/">>)
    THEN handle_static_asset(request.path)
    ELSE LET safe_path == normalize_path(StripLeadingSlash(request.path))
         IN  IF ~safe_path.ok THEN RouteErr("Forbidden", None)
             ELSE LET full_path == FullPath(safe_path.path)
                      meta      == Stat(safe_path.path)
                      target    == [path |-> safe_path.path, kind |-> meta.kind,
                                    outside |-> meta.outside]
                  IN  IF meta.kind = "missing"
                      THEN RouteErr("NotFound", Some(full_path))
                      ELSE IF meta.kind = "dir"
                      THEN RouteOk(<<"Content-Type">>, "text", target, Some(full_path))
                      ELSE IF ~MatchesAllowedExtension(safe_path.path)
                      THEN RouteErr("Forbidden", Some(full_path))
                      ELSE RouteOk(<<"Content-Type", "Content-Length",
                                     "Accept-Ranges", "Cache-Control">>,
                                   "stream", target, Some(full_path))

\* route_request without the method restriction.
route_request_any_method(request, username, password) ==
    IF /\ IsSome(username) /\ IsSome(password)
       /\ ~is_authenticated(request.auth, Unwrap(username), Unwrap(password))
    THEN RouteErr("Unauthorized", None)
    ELSE IF request.path = <<"/", "_health">> \/ request.path = <<"/", "_status">>
    THEN create_health_check_response
    ELSE IF StartsWith(request.path, <<"/", "_static", "/">>)
    THEN handle_static_asset(request.path)
    ELSE LET safe_path == normalize_path(StripLeadingSlash(request.path))
         IN  IF ~safe_path.ok THEN RouteErr("Forbidden", None)
             ELSE LET full_path == FullPath(safe_path.path)
                      meta      == Stat(safe_path.path)
                      target    == [path |-> safe_path.path, kind |-> meta.kind,
                                    outside |-> meta.outside]
                  IN  IF meta.kind = "missing"
                      THEN RouteErr("NotFound", Some(full_path))
                      ELSE IF meta.kind = "dir"
                      THEN RouteOk(<<"Content-Type">>, "text", target, Some(full_path))
                      ELSE IF ~MatchesAllowedExtension(safe_path.path)
                      THEN RouteErr("Forbidden", Some(full_path))
                      ELSE RouteOk(<<"Content-Type", "Content-Length",
                                     "Accept-Ranges", "Cache-Control">>,
                                   "stream", target, Some(full_path))

route_request(request, username, password) ==
    IF /\ IsSome(username) /\ IsSome(password)
       /\ ~is_authenticated(request.auth, Unwrap(username), Unwrap(password))
    THEN RouteErr("Unauthorized", None)
    ELSE IF request.path = <<"/", "_health">> \/ request.path = <<"/", "_status">>
    THEN create_health_check_response
    ELSE IF StartsWith(request.path, <<"/", "_static", "/">>)
    THEN handle_static_asset(request.path)
    ELSE IF request.method # "GET"
    THEN RouteErr("MethodNotAllowed", None)
    ELSE LET safe_path == normalize_path(StripLeadingSlash(request.path))
         IN  IF ~safe_path.ok THEN RouteErr("Forbidden", None)
             ELSE LET full_path == FullPath(safe_path.path)
                      meta      == Stat(safe_path.path)
                      target    == [path |-> safe_path.path, kind |-> meta.kind,
                                    outside |-> meta.outside]
                  IN  IF ~StartsWith(full_path, BaseDir)
                      THEN RouteErr("Forbidden", None)
                      ELSE IF meta.kind = "missing"
                      THEN RouteErr("NotFound", Some(full_path))
                      ELSE IF meta.kind = "dir"
                      THEN RouteOk(<<"Content-Type">>, "text", target, Some(full_path))
                      ELSE IF meta.kind = "file"
                      THEN IF ~MatchesAllowedExtension(safe_path.path)
                           THEN RouteErr("Forbidden", Some(full_path))
                           ELSE RouteOk(<<"Content-Type", "Content-Length",
                                          "Accept-Ranges", "Cache-Control">>,
                                        "stream", target, Some(full_path))
                      ELSE RouteErr("NotFound", Some(full_path))

\* send_error_response: the table from error kind to status.
ErrorStatus(e) ==
    CASE e = "NotFound"         -> 404
      [] e = "Forbidden"        -> 403
      [] e = "BadRequest"       -> 400
      [] e = "Unauthorized"     -> 401
      [] e = "MethodNotAllowed" -> 405
      [] OTHER                  -> 500

\* create_error_response followed by HttpResponse::send: the header names in
\* the order written.
create_error_response(status_code) ==
    [status  |-> status_code,
     headers |-> <<"Content-Length", "Server", "Connection", "Cache-Control",
                   "Content-Type">>
                 \o (IF status_code = 401 THEN <<"WWW-Authenticate">> ELSE <<>>),
     body    |-> "text",
     target  |-> NoTarget,
     looked  |-> None]

send_error_response(routed) ==
    [create_error_response(ErrorStatus(routed.err)) EXCEPT !.looked = routed.looked]

\* send_response: status line, Server, Connection, the response's own
\* headers, Content-Length, then the body.
send_response(response) ==
    [status  |-> response.status,
     headers |-> <<"Server", "Connection">> \o response.headers \o <<"Content-Length">>,
     body    |-> response.body,
     target  |-> response.target,
     looked  |-> response.looked]

\* handle_client after a successful Request::from_stream.
handle_client(request, username, password) ==
    LET response_result == route_request(request, username, password)
    IN  IF response_result.ok
        THEN send_response(response_result)
        ELSE send_error_response(response_result)

HasHeader(r, name) == \E i \in 1..Len(r.headers) : r.headers[i] = name

(***************************************************************************)
(* The rate limiter (server.rs:12-85).  Time is counted in ticks: the 60   *)
(* second window is WindowTicks, the 300 second retention and the 300      *)
(* second sleep of the cleanup thread are RetentionTicks and SweepTicks,   *)
(* scaled down but still longer than the window.  run_server builds the    *)
(* limiter as RateLimiter::new(120, 10); the model runs it with smaller    *)
(* caps.                                                                   *)
(***************************************************************************)
WindowTicks == 2

RetentionTicks == 4

SweepTicks == 4

MaxRequestsPerMinute == 2

MaxConcurrentPerIp == 2

MaxTime == 5

MaxConns == 4

Threads == 2

IPs == {"ip1", "ip2"}

NewConnectionInfo(t) ==
    [request_count |-> 0, last_reset |-> t, active_connections |-> 0]

\* connections.entry(ip).or_insert(..)
EntryOrInsert(map, ip, t) ==
    IF ip \in DOMAIN map THEN map
    ELSE [i \in DOMAIN map \cup {ip} |->
            IF i = ip THEN NewConnectionInfo(t) ELSE map[i]]

\* "Reset counter if more than a minute has passed"
ResetWindow(info, t) ==
    IF t - info.last_reset >= WindowTicks
    THEN [info EXCEPT !.request_count = 0, !.last_reset = t]
    ELSE info

\* check_rate_limit comparing the concurrent count with > instead of >=.
check_rate_limit_off_by_one(map, ip, t) ==
    LET inserted  == EntryOrInsert(map, ip, t)
        conn_info == ResetWindow(inserted[ip], t)
    IN  IF conn_info.active_connections > MaxConcurrentPerIp
        THEN [admitted |-> FALSE, map |-> [inserted EXCEPT ![ip] = conn_info]]
        ELSE IF conn_info.request_count >= MaxRequestsPerMinute
        THEN [admitted |-> FALSE, map |-> [inserted EXCEPT ![ip] = conn_info]]
        ELSE [admitted |-> TRUE,
              map |-> [inserted EXCEPT ![ip] =
                         [conn_info EXCEPT
                            !.request_count = conn_info.request_count + 1,
                            !.active_connections = conn_info.active_connections + 1]]]

\* One call of check_rate_limit, under the map's mutex: the verdict and the
\* map the call leaves behind.
check_rate_limit(map, ip, t) ==
    LET inserted  == EntryOrInsert(map, ip, t)
        conn_info == ResetWindow(inserted[ip], t)
    IN  IF conn_info.active_connections >= MaxConcurrentPerIp
        THEN [admitted |-> FALSE, map |-> [inserted EXCEPT ![ip] = conn_info]]
        ELSE IF conn_info.request_count >= MaxRequestsPerMinute
        THEN [admitted |-> FALSE, map |-> [inserted EXCEPT ![ip] = conn_info]]
        ELSE [admitted |-> TRUE,
              map |-> [inserted EXCEPT ![ip] =
                         [conn_info EXCEPT
                            !.request_count = conn_info.request_count + 1,
                            !.active_connections = conn_info.active_connections + 1]]]

\* A plain subtraction in place of saturating_sub.
PlainDec(n) == n - 1

\* u32::saturating_sub(1)
SaturatingDec(n) == IF n > 0 THEN n - 1 ELSE 0

release_connection(map, ip) ==
    IF ip \in DOMAIN map
    THEN [map EXCEPT ![ip].active_connections = SaturatingDec(map[ip].active_connections)]
    ELSE map

cleanup_old_entries(map, t) ==
    [i \in {j \in DOMAIN map : t - map[j].last_reset < RetentionTicks} |-> map[i]]

(***************************************************************************)
(* The server (server.rs:154-449): accept loop, thread pool, workers,      *)
(* statistics and the cleanup thread.                                      *)
(***************************************************************************)
WorkerIds == 1..Threads

ConnIds == 1..Len(conns)

\* What a handler run can come to: a response was sent, an error response
\* was sent, the peer closed before sending a byte (read_headers fails with
\* BadRequest and handle_client returns), or the handler panicked.
Outcomes == {"responded", "error_response", "early_disconnect", "panic"}

\* std::panic::catch_unwind(..).is_ok() in handle_client_with_stats
HandlerSuccess(outcome) == outcome # "panic"

\* A panic that unwinds through the job: nothing after the handler runs.
AfterHandlerUncaught(outcome) ==
    IF outcome = "panic" THEN "idle" ELSE "record_total"

\* A panic that is not caught unwinds the worker's thread: its loop ends.
AfterHandlerKillingWorker(outcome) ==
    IF outcome = "panic" THEN "exited" ELSE "record_total"

\* Where the worker goes after the handler ended: the panic is caught, so
\* every outcome goes on to record_request.
AfterHandler(outcome) == "record_total"

\* A record_request that counts successes only.
RecordOutcomeSuccessOnly(st, success) ==
    IF success
    THEN [st EXCEPT !.successful_requests = st.successful_requests + 1]
    ELSE st

\* ServerStats::record_request, second lock: which counter grows.
RecordOutcome(st, success) ==
    IF success
    THEN [st EXCEPT !.successful_requests = st.successful_requests + 1]
    ELSE [st EXCEPT !.error_requests = st.error_requests + 1]

NoCall == [op |-> "none", ip |-> "none", admitted |-> FALSE,
           had_entry |-> FALSE, before |-> NewConnectionInfo(0),
           after_present |-> FALSE, after |-> NewConnectionInfo(0),
           held |-> 0]

\* Connections of an address that hold an admission: admitted and not yet
\* released.
Holding(c) == c.admitted /\ c.releases = 0

HeldBy(ip) == Cardinality({i \in ConnIds : conns[i].ip = ip /\ Holding(conns[i])})

EntryOr(map, ip) == IF ip \in DOMAIN map THEN map[ip] ELSE NewConnectionInfo(0)

CallRecord(op, ip, admitted, before, after) ==
    [op |-> op, ip |-> ip, admitted |-> admitted,
     had_entry |-> ip \in DOMAIN before, before |-> EntryOr(before, ip),
     after_present |-> ip \in DOMAIN after, after |-> EntryOr(after, ip),
     held |-> HeldBy(ip)]

ZeroWindow == [i \in 1..RetentionTicks |-> 0]

\* conns is the record of every accepted connection.  ip is the peer address
\* (client_ip of the accept loop and of the job's closure); it is Gone once
\* the connection was rejected or released.
Gone == "gone"

IdleWorker == [pc |-> "idle", job |-> 0, outcome |-> "none"]

ServerInit ==
    /\ now = 0
    /\ connections = <<>>
    /\ conns = <<>>
    /\ acceptor = [pc |-> "accept", conn |-> 0]
    /\ queue = <<>>
    /\ workers = [w \in WorkerIds |-> IdleWorker]
    /\ stats = [total_requests |-> 0, successful_requests |-> 0, error_requests |-> 0]
    /\ lastSweep = 0
    /\ recent = [ip \in IPs |-> ZeroWindow]
    /\ last = NoCall
    /\ signal = FALSE
    /\ loop = "top"
    /\ lateIds = {}
    /\ atClose = [queued |-> 0, running |-> 0]

\* An accept loop that goes on to dispatch a connection check_rate_limit
\* refused.
AcceptCoreDispatchingRejected(ip) ==
    /\ acceptor.pc = "accept"
    /\ Len(conns) < MaxConns
    /\ LET r  == check_rate_limit(connections, ip, now)
           id == Len(conns) + 1
       IN  /\ connections' = r.map
           /\ conns' = Append(conns,
                  [ip |-> IF r.admitted THEN ip ELSE Gone,
                   st |-> IF r.admitted THEN "admitted" ELSE "rejected",
                   admitted |-> r.admitted, releases |-> 0])
           /\ acceptor' = [pc |-> "admitted", conn |-> id]
           /\ recent' = IF r.admitted
                        THEN [recent EXCEPT ![ip][1] = recent[ip][1] + 1]
                        ELSE recent
           /\ last' = CallRecord("check", ip, r.admitted, connections, r.map)
    /\ UNCHANGED <<routeVars, now, queue, workers, stats, lastSweep>>

\* listener.accept() returned a connection from ip; check_rate_limit decides.
AcceptCore(ip) ==
    /\ acceptor.pc = "accept"
    /\ Len(conns) < MaxConns
    /\ LET r  == check_rate_limit(connections, ip, now)
           id == Len(conns) + 1
       IN  /\ connections' = r.map
           /\ conns' = Append(conns,
                  [ip |-> IF r.admitted THEN ip ELSE Gone,
                   st |-> IF r.admitted THEN "admitted" ELSE "rejected",
                   admitted |-> r.admitted, releases |-> 0])
           /\ acceptor' = IF r.admitted THEN [pc |-> "admitted", conn |-> id]
                          ELSE acceptor
           /\ recent' = IF r.admitted
                        THEN [recent EXCEPT ![ip][1] = recent[ip][1] + 1]
                        ELSE recent
           /\ last' = CallRecord("check", ip, r.admitted, connections, r.map)
    /\ UNCHANGED <<routeVars, now, queue, workers, stats, lastSweep>>

\* The accept loop of a server started without shutdown channel
\* (lib.rs: run_server(cli, None, None)).
Accept(ip) == AcceptCore(ip) /\ UNCHANGED shutVars

\* pool.execute over a rendezvous channel: send waits for a free worker.
DispatchToIdleWorker ==
    /\ acceptor.pc = "admitted"
    /\ \E w \in WorkerIds : workers[w].pc = "idle"
    /\ queue' = Append(queue, acceptor.conn)
    /\ conns' = [conns EXCEPT ![acceptor.conn].st = "queued"]
    /\ acceptor' = [pc |-> "accept", conn |-> 0]
    /\ last' = NoCall
    /\ UNCHANGED <<routeVars, shutVars, now, connections, workers, stats, lastSweep, recent>>

\* stream.set_nonblocking(false) succeeded: pool.execute sends the job.
Dispatch ==
    /\ acceptor.pc = "admitted"
    /\ queue' = Append(queue, acceptor.conn)
    /\ conns' = [conns EXCEPT ![acceptor.conn].st = "queued"]
    /\ acceptor' = [pc |-> "accept", conn |-> 0]
    /\ last' = NoCall
    /\ UNCHANGED <<routeVars, shutVars, now, connections, workers, stats, lastSweep, recent>>

\* stream.set_nonblocking(false) failed: release and go on accepting.
BlockFail ==
    /\ acceptor.pc = "admitted"
    /\ LET ip == conns[acceptor.conn].ip
       IN  /\ connections' = release_connection(connections, ip)
           /\ last' = CallRecord("release", ip, FALSE, connections,
                                 release_connection(connections, ip))
    /\ conns' = [conns EXCEPT ![acceptor.conn] =
                    [ip |-> Gone, st |-> "abandoned", admitted |-> TRUE,
                     releases |-> @.releases + 1]]
    /\ acceptor' = [pc |-> "accept", conn |-> 0]
    /\ UNCHANGED <<routeVars, shutVars, now, queue, workers, stats, lastSweep, recent>>

\* A recv that hands out the job and leaves it in the channel.
RecvWithoutDequeue(w) ==
    /\ workers[w].pc = "idle"
    /\ queue # <<>>
    /\ workers' = [workers EXCEPT ![w] = [pc |-> "handling", job |-> Head(queue),
                                          outcome |-> "none"]]
    /\ conns' = [conns EXCEPT ![Head(queue)].st = "running"]
    /\ last' = NoCall
    /\ UNCHANGED <<routeVars, shutVars, now, connections, acceptor, queue, stats,
                   lastSweep, recent>>

\* receiver.lock().unwrap().recv() returned Ok(job).
Recv(w) ==
    /\ workers[w].pc = "idle"
    /\ queue # <<>>
    /\ workers' = [workers EXCEPT ![w] = [pc |-> "handling", job |-> Head(queue),
                                          outcome |-> "none"]]
    /\ queue' = Tail(queue)
    /\ conns' = [conns EXCEPT ![Head(queue)].st = "running"]
    /\ last' = NoCall
    /\ UNCHANGED <<routeVars, shutVars, now, connections, acceptor, stats, lastSweep, recent>>

\* handle_client ran inside catch_unwind and the stream was dropped.
HandleClient(w, outcome) ==
    /\ workers[w].pc = "handling"
    /\ workers' = [workers EXCEPT ![w].pc = AfterHandler(outcome),
                                  ![w].outcome = outcome]
    /\ conns' = [conns EXCEPT ![workers[w].job].st = "closed"]
    /\ last' = NoCall
    /\ UNCHANGED <<routeVars, shutVars, now, connections, acceptor, queue, stats, lastSweep, recent>>

\* record_request, first lock: total_requests += 1
RecordTotal(w) ==
    /\ workers[w].pc = "record_total"
    /\ stats' = [stats EXCEPT !.total_requests = @ + 1]
    /\ workers' = [workers EXCEPT ![w].pc = "record_outcome"]
    /\ last' = NoCall
    /\ UNCHANGED <<routeVars, shutVars, now, connections, conns, acceptor, queue, lastSweep, recent>>

\* record_request, second lock: successful_requests or error_requests += 1
RecordResult(w) ==
    /\ workers[w].pc = "record_outcome"
    /\ stats' = RecordOutcome(stats, HandlerSuccess(workers[w].outcome))
    /\ workers' = [workers EXCEPT ![w].pc = "release"]
    /\ last' = NoCall
    /\ UNCHANGED <<routeVars, shutVars, now, connections, conns, acceptor, queue, lastSweep, recent>>

\* The job's rate_limiter.release_connection(client_ip); the worker then
\* loops back to recv.
Release(w) ==
    /\ workers[w].pc = "release"
    /\ LET ip == conns[workers[w].job].ip
       IN  /\ connections' = release_connection(connections, ip)
           /\ last' = CallRecord("release", ip, FALSE, connections,
                                 release_connection(connections, ip))
    /\ conns' = [conns EXCEPT ![workers[w].job] =
                    [ip |-> Gone, st |-> "done", admitted |-> TRUE,
                     releases |-> @.releases + 1]]
    /\ workers' = [workers EXCEPT ![w] = IdleWorker]
    /\ UNCHANGED <<routeVars, shutVars, now, acceptor, queue, stats, lastSweep, recent>>

\* The cleanup thread woke up from thread::sleep(300 s).
Sweep ==
    /\ now - lastSweep >= SweepTicks
    /\ connections' = cleanup_old_entries(connections, now)
    /\ lastSweep' = now
    /\ last' = NoCall
    /\ UNCHANGED <<routeVars, shutVars, now, conns, acceptor, queue, workers, stats, recent>>

\* The clock advances by one tick.
Tick ==
    /\ now < MaxTime
    /\ now' = now + 1
    /\ recent' = [ip \in IPs |->
                    [i \in 1..RetentionTicks |-> IF i = 1 THEN 0 ELSE recent[ip][i - 1]]]
    /\ last' = NoCall
    /\ UNCHANGED <<routeVars, shutVars, connections, conns, acceptor, queue, workers, stats, lastSweep>>

\* The request pipeline is not exercised by the server specification.
RouteIdle ==
    /\ req = [method |-> "GET", path |-> <<"/">>, auth |-> None]
    /\ cfg = [username |-> None, password |-> None]
    /\ resp = [status |-> 0, headers |-> <<>>, body |-> "none", target |-> NoTarget,
               looked |-> None]
    /\ rpc = "idle"

\* Nothing written: no response head, no file byte (body holds the file
\* offsets sent, writes the byte count of each write of file data), no panic.
EmptyWire == [heads |-> <<>>, body |-> <<>>, writes |-> <<>>, panicked |-> FALSE]

\* No file is being served by the server specifications.
RangeIdle ==
    /\ rangeReq = [impl |-> "none", size |-> 0, grow |-> 0, range |-> None,
                   build |-> "release", chunk |-> 1]
    /\ wire = EmptyWire
    /\ rangePc = "idle"

\* No connection is being parsed by the other specifications.
ConnIdle ==
    /\ peer = [sent |-> <<>>, ending |-> "none", size |-> 0, grow |-> 0, chunk |-> 1]
    /\ rd = [pc |-> "idle", total_read |-> 0]
    /\ out = <<>>

\* No function is being called on its own, and the reporter thread sleeps.
NoCallYet == [fn |-> "none", arg |-> <<>>, result |-> <<>>, pc |-> "idle"]

Sleeping == [pc |-> "sleeping", total |-> 0, successful |-> 0, errors |-> 0, reports |-> 0]

CallIdle ==
    /\ call = NoCallYet
    /\ snap = Sleeping

Init == ServerInit /\ RouteIdle /\ RangeIdle /\ ConnIdle /\ CallIdle

(***************************************************************************)
(* Shutdown (server.rs:311-317, 386-399, 194-206, 215-226): run_server     *)
(* started with a shutdown channel.                                        *)
(***************************************************************************)
\* The test (or embedding program) sends () on the shutdown channel.
SendShutdown ==
    /\ ~signal
    /\ signal' = TRUE
    /\ last' = NoCall
    /\ UNCHANGED <<routeVars, now, connections, conns, acceptor, queue, workers,
                   stats, lastSweep, recent, loop, lateIds, atClose>>

\* A loop that never looks at the shutdown channel.
TryRecvNeverStops ==
    /\ loop = "top"
    /\ acceptor.pc = "accept"
    /\ loop' = "polled"
    /\ last' = NoCall
    /\ UNCHANGED <<routeVars, now, connections, conns, acceptor, queue, workers,
                   stats, lastSweep, recent, signal, lateIds, atClose>>

\* Top of 'server_loop: rx.try_recv().is_ok() breaks the loop.
TryRecv ==
    /\ loop = "top"
    /\ acceptor.pc = "accept"
    /\ loop' = IF signal THEN "stopped" ELSE "polled"
    /\ last' = NoCall
    /\ UNCHANGED <<routeVars, now, connections, conns, acceptor, queue, workers,
                   stats, lastSweep, recent, signal, lateIds, atClose>>

\* listener.accept() returned a connection.  It arrived at some moment
\* before this call: after the signal was sent (arrivedLate) only if the
\* signal has been sent by now.
AcceptConn(ip, arrivedLate) ==
    /\ loop = "polled"
    /\ arrivedLate => signal
    /\ AcceptCore(ip)
    /\ loop' = "top"
    /\ lateIds' = IF arrivedLate THEN lateIds \cup {Len(conns) + 1} ELSE lateIds
    /\ UNCHANGED <<signal, atClose>>

\* listener.accept() returned WouldBlock (sleep 100 ms, continue) or another
\* error (logged).
WouldBlock ==
    /\ loop = "polled"
    /\ loop' = "top"
    /\ last' = NoCall
    /\ UNCHANGED <<routeVars, now, connections, conns, acceptor, queue, workers,
                   stats, lastSweep, recent, signal, lateIds, atClose>>

\* After the loop: stats.get_stats() and the final report.
FinalStats ==
    /\ loop = "stopped"
    /\ loop' = "stats_read"
    /\ last' = NoCall
    /\ UNCHANGED <<routeVars, now, connections, conns, acceptor, queue, workers,
                   stats, lastSweep, recent, signal, lateIds, atClose>>

\* run_server returns Ok(()): its locals are dropped, ThreadPool::drop first
\* drops the sender.
DropSender ==
    /\ loop = "stats_read"
    /\ loop' = "closed"
    /\ atClose' = [queued  |-> Len(queue),
                   running |-> Cardinality({w \in WorkerIds : workers[w].pc # "idle"})]
    /\ last' = NoCall
    /\ UNCHANGED <<routeVars, now, connections, conns, acceptor, queue, workers,
                   stats, lastSweep, recent, signal, lateIds>>

\* A worker that leaves as soon as the sender is gone, whatever is queued.
WorkerExitOnClose(w) ==
    /\ loop = "closed"
    /\ workers[w].pc = "idle"
    /\ workers' = [workers EXCEPT ![w].pc = "exited"]
    /\ last' = NoCall
    /\ UNCHANGED <<routeVars, shutVars, now, connections, conns, acceptor, queue,
                   stats, lastSweep, recent>>

\* recv() returns Err once the sender is gone and the channel is empty: the
\* worker's loop breaks.
WorkerExit(w) ==
    /\ loop = "closed"
    /\ workers[w].pc = "idle"
    /\ queue = <<>>
    /\ workers' = [workers EXCEPT ![w].pc = "exited"]
    /\ last' = NoCall
    /\ UNCHANGED <<routeVars, shutVars, now, connections, conns, acceptor, queue,
                   stats, lastSweep, recent>>

\* ThreadPool::drop joined every worker thread; run_server is back in its
\* caller.
JoinWorkers ==
    /\ loop = "closed"
    /\ \A w \in WorkerIds : workers[w].pc = "exited"
    /\ loop' = "returned"
    /\ last' = NoCall
    /\ UNCHANGED <<routeVars, now, connections, conns, acceptor, queue, workers,
                   stats, lastSweep, recent, signal, lateIds, atClose>>

\* A whole job at once, for the specification that follows the clock: one
\* of the jobs a worker can hold (the first Threads of the channel) is
\* received, handled, recorded and released.
RunJob(k, outcome) ==
    /\ k \in 1..Len(queue)
    /\ k <= Threads
    /\ LET id == queue[k]
           ip == conns[id].ip
       IN  /\ queue' = SubSeq(queue, 1, k - 1) \o SubSeq(queue, k + 1, Len(queue))
           /\ stats' = RecordOutcome([stats EXCEPT !.total_requests = @ + 1],
                                     HandlerSuccess(outcome))
           /\ connections' = release_connection(connections, ip)
           /\ last' = CallRecord("release", ip, FALSE, connections,
                                 release_connection(connections, ip))
           /\ conns' = [conns EXCEPT ![id] =
                            [ip |-> Gone, st |-> "done", admitted |-> TRUE,
                             releases |-> @.releases + 1]]
    /\ UNCHANGED <<routeVars, shutVars, now, acceptor, workers, lastSweep, recent>>

\* The server within one tick of the clock, every step of every thread.
Next ==
    \/ \E ip \in IPs : Accept(ip)
    \/ Dispatch
    \/ BlockFail
    \/ \E w \in WorkerIds : Recv(w)
    \/ \E w \in WorkerIds, outcome \in Outcomes : HandleClient(w, outcome)
    \/ \E w \in WorkerIds : RecordTotal(w)
    \/ \E w \in WorkerIds : RecordResult(w)
    \/ \E w \in WorkerIds : Release(w)

Spec == Init /\ [][Next]_vars

\* The server over time: the rate limiter's calls, the cleanup thread and
\* the clock, with each job as one step.
TimedNext ==
    \/ \E ip \in IPs : Accept(ip)
    \/ Dispatch
    \/ BlockFail
    \/ \E k \in 1..Threads, outcome \in Outcomes : RunJob(k, outcome)
    \/ Sweep
    \/ Tick

TimedSpec == Init /\ [][TimedNext]_vars

\* The server with a shutdown channel, every step of every thread.
ShutdownNext ==
    \/ SendShutdown
    \/ TryRecv
    \/ \E ip \in IPs, arrivedLate \in BOOLEAN : AcceptConn(ip, arrivedLate)
    \/ WouldBlock
    \/ Dispatch
    \/ BlockFail
    \/ \E w \in WorkerIds : Recv(w)
    \/ \E w \in WorkerIds, outcome \in Outcomes : HandleClient(w, outcome)
    \/ \E w \in WorkerIds : RecordTotal(w)
    \/ \E w \in WorkerIds : RecordResult(w)
    \/ \E w \in WorkerIds : Release(w)
    \/ FinalStats
    \/ DropSender
    \/ \E w \in WorkerIds : WorkerExit(w)
    \/ JoinWorkers

ShutdownSpec == Init /\ [][ShutdownNext]_vars

\* The server with a shutdown channel, each job as one step.
DrainNext ==
    \/ SendShutdown
    \/ TryRecv
    \/ \E ip \in IPs, arrivedLate \in BOOLEAN : AcceptConn(ip, arrivedLate)
    \/ WouldBlock
    \/ Dispatch
    \/ BlockFail
    \/ \E k \in 1..Threads, outcome \in Outcomes : RunJob(k, outcome)
    \/ FinalStats
    \/ DropSender
    \/ \E w \in WorkerIds : WorkerExit(w)
    \/ JoinWorkers

\* Every thread keeps running: the accept loop goes round (accept is
\* non-blocking), a job that was taken ends, a worker whose recv failed
\* leaves, the join returns.  Nothing obliges anyone to send the signal.
DrainFairness ==
    /\ WF_vars(TryRecv)
    /\ WF_vars(WouldBlock \/ \E ip \in IPs, arrivedLate \in BOOLEAN : AcceptConn(ip, arrivedLate))
    /\ WF_vars(Dispatch \/ BlockFail)
    /\ WF_vars(\E k \in 1..Threads, outcome \in Outcomes : RunJob(k, outcome))
    /\ WF_vars(FinalStats)
    /\ WF_vars(DropSender)
    /\ \A w \in WorkerIds : WF_vars(WorkerExit(w))
    /\ WF_vars(JoinWorkers)

DrainSpec == Init /\ [][DrainNext]_vars /\ DrainFairness

(***************************************************************************)
(* RouteSpec: handle_client applied to every request of a bounded set.     *)
(***************************************************************************)
MaxCredLen == 4

\* 'p', 'u', ':' and a byte that no UTF-8 string contains.
CredBytes == {112, 117, Colon, 255}

ByteStrings == SeqsUpTo(CredBytes, MaxCredLen)

User == <<117>>

UserWithColon == <<117, Colon>>

Pass == <<112>>

NoCredentials == [username |-> None, password |-> None]

BothCredentials == [username |-> Some(User), password |-> Some(Pass)]

Cfgs ==
    { NoCredentials,
      BothCredentials,
      [username |-> Some(UserWithColon), password |-> Some(Pass)],
      [username |-> Some(User), password |-> None],
      [username |-> None, password |-> Some(Pass)] }

\* "Basic <base64(user:pass)>"
BasicHeader(user, pass) ==
    Some([scheme |-> "Basic ", payload |-> B64Encode(user \o <<Colon>> \o pass)])

Schemes == {"Basic ", "basic ", "Bearer "}

\* Payloads that are not the canonical encoding of any byte string: the
\* padding cut off, a symbol outside the alphabet appended, a low bit set in
\* the last symbol before the padding.
Malformed(payload) ==
    LET n == Len(payload)
    IN  {Append(payload, BadSymbol)}
        \cup (IF n > 0 /\ payload[n] = Pad
              THEN { SubSeq(payload, 1, n - 1),
                     IF payload[n - 1] = Pad
                     THEN [payload EXCEPT ![n - 2] = @ + 1]
                     ELSE [payload EXCEPT ![n - 1] = @ + 1] }
              ELSE {})

AuthHeaders ==
    {None}
    \cup {Some([scheme |-> sch, payload |-> B64Encode(bs)]) :
            sch \in Schemes, bs \in ByteStrings}
    \cup {Some([scheme |-> "Basic ", payload |-> m]) :
            m \in UNION {Malformed(B64Encode(bs)) : bs \in ByteStrings}}

\* Every path with few credentials, and few paths with every header.
Requests ==
    [method : Methods, path : Paths, auth : {None, BasicHeader(User, Pass)}]
    \cup [method : Methods, path : {<<"/">>, <<"/", "a.txt">>}, auth : AuthHeaders]

RouteInit ==
    /\ req \in Requests
    /\ cfg \in Cfgs
    /\ resp = [status |-> 0, headers |-> <<>>, body |-> "none", target |-> NoTarget,
               looked |-> None]
    /\ rpc = "start"
    /\ ServerInit
    /\ RangeIdle
    /\ ConnIdle
    /\ CallIdle

\* handle_client on a request that parsed.
HandleRequest ==
    /\ rpc = "start"
    /\ resp' = handle_client(req, cfg.username, cfg.password)
    /\ rpc' = "done"
    /\ UNCHANGED <<req, cfg, rangeVars, connVars, callVars, serverVars>>

RouteNext == HandleRequest

RouteSpec == RouteInit /\ [][RouteNext]_vars

(***************************************************************************)
(* Claims about routing (RouteSpec)                                        *)
(***************************************************************************)
PathComponents(path) == Components(StripLeadingSlash(path))

\* Retained components after the first i: those pushed minus those popped.
DepthAfter(comps, i) ==
    Cardinality({j \in 1..i : comps[j].kind = "Normal"})
    - Cardinality({j \in 1..i : comps[j].kind = "ParentDir"})

\* Left to right, some ".." meets an empty stack.
EscapesRoot(path) ==
    LET comps == PathComponents(path)
    IN  \E i \in 1..Len(comps) : DepthAfter(comps, i) < 0

\* full is base_dir itself or names a place below it: it continues base_dir
\* and no ".." of the continuation climbs above base_dir.
UnderRoot(full) ==
    /\ StartsWith(full, BaseDir)
    /\ LET rest == Drop(full, Len(BaseDir))
       IN  \A i \in 1..Len(rest) :
              Cardinality({j \in 1..i : rest[j] # ".."})
                >= Cardinality({j \in 1..i : rest[j] = ".."})

CredentialsConfigured == IsSome(cfg.username) /\ IsSome(cfg.password)

\* The header is exactly "Basic " followed by base64(user ":" pass).
ValidCredentials ==
    /\ CredentialsConfigured
    /\ req.auth = BasicHeader(Unwrap(cfg.username), Unwrap(cfg.password))

\* The request gets past authentication (or none is configured).
PassesAuth == ~CredentialsConfigured \/ resp.status # 401

IsStaticPath(path) == StartsWith(path, <<"/", "_static", "/">>)

\* C1 as stated: every request whose path escapes above the root gets
\* Forbidden, and a path that is looked up in the filesystem is the root or
\* below it.
C1_EscapeAlwaysForbidden ==
    rpc = "done" =>
        /\ EscapesRoot(req.path) => resp.status = 403
        /\ IsSome(resp.looked) => UnderRoot(Unwrap(resp.looked))

\* C1 (amended): every GET request that passes authentication and whose path
\* is not under /_static/ gets Forbidden, without any filesystem lookup, if
\* its components would pop ".." from an empty stack; and for every request a
\* path that is looked up in the filesystem is the root or below it.
C1_TraversalSafety ==
    rpc = "done" =>
        /\ (/\ req.method = "GET"
            /\ PassesAuth
            /\ ~IsStaticPath(req.path)
            /\ EscapesRoot(req.path))
           => (resp.status = 403 /\ resp.looked = None)
        /\ IsSome(resp.looked) => UnderRoot(Unwrap(resp.looked))

C1_Witness ==
    /\ rpc = "done"
    /\ req.method = "GET"
    /\ req.path = <<"/", "d", "/", "..", "/", "..", "/", "a.txt">>
    /\ cfg = NoCredentials
    /\ resp.status = 403

\* C2: a GET through a symbolic link that leaves the root gets Forbidden,
\* nothing outside the root is ever served, and a missing path gets
\* NotFound.
C2_NothingOutsideRootServed ==
    rpc = "done" =>
        /\ (resp.target.outside => resp.status = 403)
        /\ ~(resp.status = 200 /\ resp.target.outside)
        /\ (IsSome(resp.looked) /\ Stat(Drop(Unwrap(resp.looked), Len(BaseDir))).kind = "missing")
             => resp.status = 404

\* The 401 response: the challenge header and nothing of the request's
\* target.
IsUnauthorizedResponse(r) ==
    /\ r.status = 401
    /\ HasHeader(r, "WWW-Authenticate")
    /\ r.target = NoTarget
    /\ r.looked = None

\* C3 as stated: with credentials configured, every request without the
\* exact header gets the 401 response, a request with it is handled as if no
\* credentials were configured; with no credentials nothing gets 401.
C3_AuthGatingAnyUser ==
    rpc = "done" =>
        /\ (CredentialsConfigured /\ ~ValidCredentials) => IsUnauthorizedResponse(resp)
        /\ ValidCredentials => resp = handle_client(req, None, None)
        /\ cfg = NoCredentials => (resp.status # 401 /\ ~HasHeader(resp, "WWW-Authenticate"))

\* C3 (amended): as stated, for a configured user name without ':' (the
\* first ':' of the decoded header ends the user name).
C3_AuthGating ==
    rpc = "done" =>
        /\ (CredentialsConfigured /\ ~ValidCredentials) => IsUnauthorizedResponse(resp)
        /\ (ValidCredentials /\ FirstColon(Unwrap(cfg.username)) = 0)
             => resp = handle_client(req, None, None)
        /\ cfg = NoCredentials => (resp.status # 401 /\ ~HasHeader(resp, "WWW-Authenticate"))

C3_Witness ==
    /\ rpc = "done"
    /\ cfg = BothCredentials
    /\ req.auth = BasicHeader(User, Pass)
    /\ req.path = <<"/", "a.txt">>
    /\ req.method = "GET"
    /\ resp.status = 200
    /\ resp.target.path = <<"a.txt">>

\* The checks of the routing contract, each decided from the request, the
\* configuration and the served directory.
AuthFails ==
    /\ CredentialsConfigured
    /\ ~is_authenticated(req.auth, Unwrap(cfg.username), Unwrap(cfg.password))

IsReservedRoute(path) == path \in {<<"/", "_health">>, <<"/", "_status">>}

AssetExists(path) == Drop(path, 3) \in StaticAssets

\* The object the request path names below the root, once "." and empty
\* components are dropped and each ".." has taken back the component before.
RequestedEntry == Stat(normalize_path(StripLeadingSlash(req.path)).path)

LastName(path) == path[Len(path)]

\* The path joined to the root, as the containment check sees it.
RequestedFullPath == BaseDir \o normalize_path(StripLeadingSlash(req.path)).path

\* The status of the first check that decides, in the order authentication,
\* reserved routes, static prefix, method, normalization, root containment
\* (of the joined path, component by component), existence, directory or
\* extension.
FirstDecidingStatus ==
    IF AuthFails THEN 401
    ELSE IF IsReservedRoute(req.path) THEN 200
    ELSE IF IsStaticPath(req.path) THEN (IF AssetExists(req.path) THEN 200 ELSE 404)
    ELSE IF req.method # "GET" THEN 405
    ELSE IF EscapesRoot(req.path) THEN 403
    ELSE IF ~UnderRoot(RequestedFullPath) THEN 403
    ELSE IF RequestedEntry.kind = "missing" THEN 404
    ELSE IF RequestedEntry.kind = "dir" THEN 200
    ELSE IF LastName(RequestedEntry.path) \in AllowedNames THEN 200
    ELSE 403

\* C16: the response is that of the first deciding check in the fixed order;
\* the filesystem is consulted only when every earlier check let the request
\* through, and a file or directory is handed out only by the last check.
C16_CheckOrder ==
    rpc = "done" =>
        /\ resp.status = FirstDecidingStatus
        /\ IsSome(resp.looked) <=>
              (/\ ~AuthFails /\ ~IsReservedRoute(req.path) /\ ~IsStaticPath(req.path)
               /\ req.method = "GET" /\ ~EscapesRoot(req.path))
        /\ resp.target # NoTarget => (IsSome(resp.looked) /\ resp.status = 200)

\* A POST to a path that climbs out of the root is answered 405.
C16_Witness ==
    /\ rpc = "done"
    /\ cfg = NoCredentials
    /\ req.method = "POST"
    /\ req.path = <<"/", "d", "/", "..", "/", "..", "/", "a.txt">>
    /\ resp.status = 405

C18_ExtensionAllowList ==
    (rpc = "done" /\ IsSome(resp.looked)) =>
        LET rel   == Drop(Unwrap(resp.looked), Len(BaseDir))
            entry == Stat(rel)
        IN  /\ (entry.kind = "file" /\ LastName(rel) \notin AllowedNames)
                  => (resp.status = 403 /\ resp.target = NoTarget)
            /\ (entry.kind = "file" /\ LastName(rel) \in AllowedNames)
                  => (resp.status = 200 /\ resp.body = "stream" /\ resp.target.path = rel)
            /\ entry.kind = "dir"
                  => (resp.status = 200 /\ resp.body = "text" /\ resp.target.path = rel)

\* An existing file that matches no pattern was asked for and refused.
C18_Witness ==
    /\ rpc = "done"
    /\ req.method = "GET"
    /\ req.path = <<"/", "d", "/", "c.zip">>
    /\ resp.status = 403
    /\ resp.looked = Some(BaseDir \o <<"d", "c.zip">>)

(***************************************************************************)
(* Claims about the rate limiter and the workers (Spec, TimedSpec)         *)
(***************************************************************************)
\* C4: for every address, the connections admitted and not yet released are
\* at most the concurrent cap.
C4_HeldWithinCap == \A ip \in IPs : HeldBy(ip) <= MaxConcurrentPerIp

\* The counters a check_rate_limit call decides on: those of the entry it
\* found, the request count taken as zero when the window has run out, and
\* zero for an address without entry.
ActiveAtCheck == IF last.had_entry THEN last.before.active_connections ELSE 0

CountAtCheck ==
    IF last.had_entry /\ now - last.before.last_reset < WindowTicks
    THEN last.before.request_count ELSE 0

\* C5: check_rate_limit returns false when the active count has reached the
\* concurrent cap or the request count the per-minute cap, otherwise true
\* with both counters one higher; verdict and increments are one step, so no
\* entry ever counts more than a cap.
C5_AdmitVerdict ==
    /\ last.op = "check" =>
          /\ last.admitted <=> (/\ ActiveAtCheck < MaxConcurrentPerIp
                                /\ CountAtCheck < MaxRequestsPerMinute)
          /\ last.after_present
          /\ last.after.active_connections
               = ActiveAtCheck + (IF last.admitted THEN 1 ELSE 0)
          /\ last.after.request_count
               = CountAtCheck + (IF last.admitted THEN 1 ELSE 0)
    /\ \A ip \in DOMAIN connections :
          /\ connections[ip].active_connections <= MaxConcurrentPerIp
          /\ connections[ip].request_count <= MaxRequestsPerMinute

\* The last slot was taken and the next admit, in a fresh window, is refused.
C5_Witness ==
    /\ last.op = "check"
    /\ ~last.admitted
    /\ last.before.active_connections = MaxConcurrentPerIp
    /\ last.after.request_count = 0

RECURSIVE SumTo(_, _)
SumTo(f, n) == IF n = 0 THEN 0 ELSE f[n] + SumTo(f, n - 1)

\* C6: within any one window's length of time at most the per-minute cap of
\* connections of one address are admitted.
C6_SlidingWindow ==
    \A ip \in IPs : SumTo(recent[ip], WindowTicks) <= MaxRequestsPerMinute

\* A connection that holds an admission is at one place of the pipeline that
\* ends in its release.
InPipeline(i) ==
    \/ acceptor.pc = "admitted" /\ acceptor.conn = i
    \/ \E k \in 1..Len(queue) : queue[k] = i
    \/ \E w \in WorkerIds : workers[w].job = i /\ workers[w].pc # "idle"

\* C7: an admitted connection is released exactly once, after it was closed
\* or abandoned, whatever the handler came to; a rejected connection is never
\* released.
C7_ReleasedExactlyOnce ==
    \A i \in ConnIds :
        /\ conns[i].releases <= 1
        /\ ~conns[i].admitted => (conns[i].releases = 0 /\ conns[i].st = "rejected")
        /\ conns[i].releases = 1 <=> conns[i].st \in {"done", "abandoned"}
        /\ Holding(conns[i]) => InPipeline(i)
        /\ conns[i].st = "closed" =>
              \E w \in WorkerIds :
                  /\ workers[w].job = i
                  /\ workers[w].pc \in {"record_total", "record_outcome", "release"}

\* A panicked handler's connection was released, another was abandoned by
\* the accept loop and released, a third was rejected; nothing is pending.
C7_Witness ==
    /\ stats.error_requests > 0
    /\ \A w \in WorkerIds : workers[w].pc = "idle"
    /\ queue = <<>>
    /\ acceptor.pc = "accept"
    /\ \E i, j, k \in ConnIds :
          /\ conns[i].st = "done" /\ conns[i].releases = 1
          /\ conns[j].st = "abandoned" /\ conns[j].releases = 1
          /\ conns[k].st = "rejected" /\ conns[k].releases = 0

\* C8: a connection of an address that already holds the concurrent cap is
\* rejected at accept time; one of an address below the cap (and below the
\* per-minute cap) is admitted.
C8_ExcessRejected ==
    last.op = "check" =>
        /\ last.held >= MaxConcurrentPerIp => ~last.admitted
        /\ (last.held < MaxConcurrentPerIp /\ CountAtCheck < MaxRequestsPerMinute)
             => last.admitted

\* C9: release_connection takes one from the address's active count, a
\* count of zero stays zero, an address without entry gets none, and no
\* counter of the map is ever negative.
C9_ReleaseSaturates ==
    /\ \A ip \in DOMAIN connections :
          /\ connections[ip].active_connections >= 0
          /\ connections[ip].request_count >= 0
    /\ last.op = "release" =>
          /\ last.after_present = last.had_entry
          /\ last.had_entry =>
                /\ last.before.active_connections > 0
                     => last.after.active_connections = last.before.active_connections - 1
                /\ last.before.active_connections = 0
                     => last.after.active_connections = 0
                /\ last.after.request_count = last.before.request_count
                /\ last.after.last_reset = last.before.last_reset

\* A release that found the count at zero.
C9_Witness ==
    /\ last.op = "release"
    /\ last.had_entry
    /\ last.before.active_connections = 0
    /\ last.after.active_connections = 0

\* C10: a handler that panicked or whose client went away before sending a
\* byte leaves its worker going on to the next job and is counted as a
\* failed request.
C10_FailureCounted ==
    [][\A w \in WorkerIds :
          /\ (workers[w].pc = "handling" /\ workers'[w].pc # "handling")
                => workers'[w].pc = "record_total"
          /\ (/\ workers[w].pc = "record_outcome"
              /\ workers'[w].pc = "release"
              /\ workers[w].outcome \in {"panic", "early_disconnect"})
                => stats'.error_requests = stats.error_requests + 1]_vars

(***************************************************************************)
(* Claims about the worker pool (Spec)                                     *)
(***************************************************************************)
\* Connections whose job a worker has received and not yet finished.
RunningJobs == {i \in ConnIds : conns[i].st \in {"running", "closed"}}

\* C14: execute never blocks the accept loop, whatever the workers do; at
\* most Threads jobs run at a time; an idle worker can take a queued job.
C14_PoolNeverBlocks ==
    /\ acceptor.pc = "admitted" => ENABLED Dispatch
    /\ Cardinality(RunningJobs) <= Threads
    /\ \A w \in WorkerIds :
          (workers[w].pc = "idle" /\ queue # <<>>) => ENABLED Recv(w)

\* Every worker is busy, a job waits in the channel and the accept loop has
\* another admitted connection to send.
C14_Witness ==
    /\ \A w \in WorkerIds : workers[w].pc # "idle"
    /\ queue # <<>>
    /\ acceptor.pc = "admitted"

\* The places a connection is at: the accept loop's hand, positions of the
\* channel, workers.
InHand(i) == IF acceptor.pc = "admitted" /\ acceptor.conn = i THEN 1 ELSE 0

InChannel(i) == Cardinality({k \in 1..Len(queue) : queue[k] = i})

AtWorkers(i) ==
    Cardinality({w \in WorkerIds : workers[w].pc # "idle" /\ workers[w].job = i})

\* C15: a connection is at one place at a time, first the accept loop, then
\* the channel, then exactly one worker, and at none once it is done: no two
\* workers get the same job and the accept loop keeps none it dispatched.
C15_OneWorkerOnce ==
    \A i \in ConnIds :
        /\ InHand(i) + InChannel(i) + AtWorkers(i) <= 1
        /\ conns[i].st = "admitted" <=> InHand(i) = 1
        /\ conns[i].st = "queued" <=> InChannel(i) = 1
        /\ conns[i].st \in {"running", "closed"} <=> AtWorkers(i) = 1
        /\ conns[i].st \in {"done", "abandoned", "rejected"}
             => InHand(i) + InChannel(i) + AtWorkers(i) = 0

\* One connection is done, every worker holds another and one more waits.
C15_Witness ==
    /\ \E i \in ConnIds : conns[i].st = "done"
    /\ \A w \in WorkerIds : workers[w].pc = "handling"
    /\ \E i \in ConnIds : conns[i].st = "queued"

(***************************************************************************)
(* Claims about shutdown (ShutdownSpec, DrainSpec)                         *)
(***************************************************************************)
\* C11: no connection that arrived after the shutdown signal was sent is
\* accepted (and so none is admitted or dispatched).
C11_NoLateAccept == lateIds = {}

\* C12: run_server is back in its caller only after the sender was dropped
\* and every worker was joined; by then every job sent to the pool, queued
\* or running at that moment, has run and released its connection.
C12_DrainedBeforeReturn ==
    /\ loop = "returned" =>
          /\ queue = <<>>
          /\ \A w \in WorkerIds : workers[w].pc = "exited"
          /\ \A i \in ConnIds : conns[i].admitted => conns[i].st \in {"done", "abandoned"}
    /\ \A w \in WorkerIds : workers[w].pc = "exited" => (loop \in {"closed", "returned"} /\ queue = <<>>)

\* run_server returned, and when the sender was dropped jobs were queued and
\* a job was running.
C12_Witness ==
    /\ loop = "returned"
    /\ atClose.queued > 0
    /\ atClose.running > 0

\* C13: once the shutdown signal is sent, run_server eventually returns
\* (every handler that was started ends).
C13_ShutdownReturns == signal ~> (loop = "returned")

\* run_server returned after a signal that found jobs in the channel.
C13_Witness ==
    /\ signal
    /\ loop = "returned"
    /\ atClose.queued > 0

(***************************************************************************)
(* Range requests.  Two file responders exist in the repository: the       *)
(* binary's serve_file (main.rs:488-941), which reads the Range header,    *)
(* and the library's file branch of route_request with send_response       *)
(* (http.rs:372-397, 433-491), which never looks at it.  A response is     *)
(* recorded as what reaches the socket: the response heads written, the    *)
(* file offsets streamed, and whether the handler panicked.                *)
(***************************************************************************)
MaxFileSize == 3

MaxOffset == 4

MaxChunk == 2

\* Bytes appended to the file by another process after its size was read.
MaxGrow == 1

\* Stands for 2^64, the width of u64 (and of usize on the 64-bit build).
U64Modulus == 16

Builds == {"debug", "release"}

Impls == {"main", "lib"}

\* The value of the Range header after the request was read: bytes=a-b,
\* bytes=a-, another unit, not two parts around '-', or a part that is not
\* a u64.
RangeForms == {"closed", "open", "other_unit", "bad_parts", "bad_start", "bad_end"}

RangeHeaders ==
    {None}
    \cup {Some([form |-> "closed", start |-> a, end |-> b]) :
            a \in 0..MaxOffset, b \in 0..MaxOffset}
    \cup {Some([form |-> "open", start |-> a, end |-> 0]) : a \in 0..MaxOffset}
    \cup {Some([form |-> f, start |-> 0, end |-> 0]) :
            f \in {"other_unit", "bad_parts", "bad_start", "bad_end"}}

ResponseHead(status, content_range, content_length) ==
    [status |-> status, content_range |-> content_range,
     content_length |-> content_length]

Wrote(w, head) == [w EXCEPT !.heads = Append(@, head)]

Panic(w) == [w EXCEPT !.panicked = TRUE]

\* u64 subtraction and addition in a release build.
WrappingSub(x, y) == (x - y + U64Modulus) % U64Modulus

WrappingAdd(x, y) == (x + y) % U64Modulus

\* end_byte - start_byte + 1 overflows u64 (a panic in a debug build).
LenOverflows(start_byte, end_byte) ==
    \/ end_byte < start_byte
    \/ end_byte - start_byte + 1 >= U64Modulus

RangeLen(start_byte, end_byte) == WrappingAdd(WrappingSub(end_byte, start_byte), 1)

Min(a, b) == IF a < b THEN a ELSE b

\* The read loop: at most chunk_size bytes at a time from the file position,
\* until bytes_remaining is used up or read returns 0 at end of file.  Each
\* element is the file offsets of one read, written with one write_all.
RECURSIVE ReadChunks(_, _, _, _)
ReadChunks(pos, bytes_remaining, file_len, chunk_size) ==
    IF bytes_remaining = 0
    THEN <<>>
    ELSE LET bytes_to_read == Min(bytes_remaining, chunk_size)
             bytes_read    == Min(bytes_to_read, file_len - pos)
         IN  IF bytes_read <= 0
             THEN <<>>
             ELSE <<[i \in 1..bytes_read |-> pos + i - 1]>>
                  \o ReadChunks(pos + bytes_read, bytes_remaining - bytes_read,
                                file_len, chunk_size)

RECURSIVE Flatten(_)
Flatten(chunks) ==
    IF chunks = <<>> THEN <<>> ELSE chunks[1] \o Flatten(Tail(chunks))

\* What the read loop puts on the socket.
Streamed(w, chunks) ==
    [w EXCEPT !.body = Flatten(chunks),
              !.writes = [i \in 1..Len(chunks) |-> Len(chunks[i])]]

\* The length of the file while it is read.
FileLen(rq) == rq.size + rq.grow

\* main.rs send_response: a complete response with a status line, its own
\* Content-Length and a short body that is not file data.
main_send_response(w, status_code) == Wrote(w, ResponseHead(status_code, None, None))

\* serve_file after the response head was written: the satisfiability test,
\* the seek and the read loop.
serve_file_after_head(w, start_byte, end_byte, rq) ==
    IF start_byte >= rq.size
    THEN main_send_response(w, 416)
    ELSE IF rq.build = "debug" /\ LenOverflows(start_byte, end_byte)
         THEN Panic(w)
         ELSE Streamed(w, ReadChunks(start_byte, RangeLen(start_byte, end_byte),
                                     FileLen(rq), rq.chunk))

\* serve_file on a file that opened and whose metadata was read.
serve_file(rq) ==
    IF rq.size = 0 /\ rq.build = "debug"
    THEN Panic(EmptyWire)
    ELSE LET default_end == WrappingSub(rq.size, 1)
         IN  IF ~IsSome(rq.range)
             THEN serve_file_after_head(
                      Wrote(EmptyWire, ResponseHead(200, None, Some(rq.size))),
                      0, default_end, rq)
             ELSE LET r          == Unwrap(rq.range)
                      start_byte == r.start
                      end_byte   == IF r.form = "open" THEN default_end ELSE r.end
                  IN  IF r.form \notin {"closed", "open"}
                      THEN main_send_response(EmptyWire, 400)
                      ELSE IF rq.build = "debug" /\ LenOverflows(start_byte, end_byte)
                           THEN Panic(EmptyWire)
                           ELSE serve_file_after_head(
                                    Wrote(EmptyWire,
                                          ResponseHead(206,
                                               Some(<<start_byte, end_byte, rq.size>>),
                                               Some(RangeLen(start_byte, end_byte)))),
                                    start_byte, end_byte, rq)

\* The request the library sees for the served file; Request carries the
\* Range header in its header map, and nothing reads it.
LibFileRequest == [method |-> "GET", path |-> <<"/", "a.txt">>, auth |-> None]

\* send_response's loop: reads of chunk_size bytes until read returns 0.
RECURSIVE ReadToEnd(_, _, _)
ReadToEnd(pos, file_len, chunk_size) ==
    LET bytes_read == Min(chunk_size, file_len - pos)
    IN  IF bytes_read <= 0
        THEN <<>>
        ELSE <<[i \in 1..bytes_read |-> pos + i - 1]>>
             \o ReadToEnd(pos + bytes_read, file_len, chunk_size)

\* The head send_response writes for a routed response; file_details.size is
\* the size FileDetails::new found.
LibHead(response, rq) ==
    ResponseHead(response.status,
                 IF HasHeader(response, "Content-Range")
                 THEN Some(<<0, rq.size - 1, rq.size>>) ELSE None,
                 IF response.body = "stream" THEN Some(rq.size) ELSE None)

\* A library that stops after the first chunk of the file.
lib_serve_file_first_chunk(rq) ==
    LET response == handle_client(LibFileRequest, None, None)
    IN  IF response.body = "stream"
        THEN Streamed(Wrote(EmptyWire, LibHead(response, rq)),
                      ReadChunks(0, rq.chunk, FileLen(rq), rq.chunk))
        ELSE Wrote(EmptyWire, LibHead(response, rq))

\* The library: handle_client routes to the file branch, send_response
\* writes the head and then reads the file to its end.
lib_serve_file(rq) ==
    LET response == handle_client(LibFileRequest, None, None)
    IN  IF response.body = "stream"
        THEN Streamed(Wrote(EmptyWire, LibHead(response, rq)),
                      ReadToEnd(0, FileLen(rq), rq.chunk))
        ELSE Wrote(EmptyWire, LibHead(response, rq))

RangeRequests ==
    [impl : Impls, size : 0..MaxFileSize, grow : 0..MaxGrow, range : RangeHeaders,
     build : Builds, chunk : 1..MaxChunk]

RangeInit ==
    /\ rangeReq \in RangeRequests
    /\ wire = EmptyWire
    /\ rangePc = "start"
    /\ ServerInit
    /\ RouteIdle
    /\ ConnIdle
    /\ CallIdle

\* One GET of the served file, answered by one of the two responders.
ServeFile ==
    /\ rangePc = "start"
    /\ wire' = IF rangeReq.impl = "main"
               THEN serve_file(rangeReq)
               ELSE lib_serve_file(rangeReq)
    /\ rangePc' = "done"
    /\ UNCHANGED <<req, cfg, resp, rpc, rangeReq, connVars, callVars, serverVars>>

RangeNext == ServeFile

RangeSpec == RangeInit /\ [][RangeNext]_vars

(***************************************************************************)
(* Claims about Range requests (RangeSpec)                                 *)
(***************************************************************************)
IsClosedRange == IsSome(rangeReq.range) /\ Unwrap(rangeReq.range).form = "closed"

RangeStart == Unwrap(rangeReq.range).start

RangeEnd == Unwrap(rangeReq.range).end

\* C19: for a file of size S and a header Range: bytes=a-b with
\* 0 <= a <= b < S, the response is one 206 head with Content-Range
\* bytes a-b/S and the body is exactly the file bytes a through b.
C19_RangeServed ==
    (/\ rangePc = "done"
     /\ IsClosedRange
     /\ RangeStart <= RangeEnd
     /\ RangeEnd < rangeReq.size)
    => /\ ~wire.panicked
       /\ Len(wire.heads) = 1
       /\ wire.heads[1].status = 206
       /\ wire.heads[1].content_range = Some(<<RangeStart, RangeEnd, rangeReq.size>>)
       /\ wire.body = [i \in 1..(RangeEnd - RangeStart + 1) |-> RangeStart + i - 1]

\* C20: a header Range: bytes=a-b with a > b, b >= S or a >= S is answered
\* with 416: no 206 status line, no Content-Range header and no file byte
\* reach the socket.
C20_UnsatisfiableIs416 ==
    (/\ rangePc = "done"
     /\ IsClosedRange
     /\ (RangeStart > RangeEnd \/ RangeEnd >= rangeReq.size
         \/ RangeStart >= rangeReq.size))
    => /\ \E i \in 1..Len(wire.heads) : wire.heads[i].status = 416
       /\ \A i \in 1..Len(wire.heads) :
             /\ wire.heads[i].status # 206
             /\ wire.heads[i].content_range = None
       /\ wire.body = <<>>

(***************************************************************************)
(* One connection of the library, from its first byte to its response      *)
(* (http.rs:37-144, 182-221, 433-510; response.rs:105-158).  What the      *)
(* client sends is a sequence of tokens, each standing for one or more     *)
(* bytes of text: a space, a carriage return, a line feed, a byte that is  *)
(* not UTF-8, or a piece of a word.  A word of the request line is the     *)
(* sequence of its tokens, so a request path is a path of the routing      *)
(* model.  Lengths are counted in tokens.                                  *)
(***************************************************************************)
SP == " "

CR == "\r"

LF == "\n"

InvalidUtf8 == "0xFF"

Whitespace == {SP, CR, LF}

\* The header buffer of read_headers (8192 bytes), in tokens.
HeaderBufferSize == 12

\* The most tokens one read returns.
MaxRead == 3

\* The length of an in-memory body (an error page, a listing, the health
\* document, an embedded asset).
TextBodyLen == 2

\* Padding header bytes that fill the buffer before any blank line.
PadLen == 6

\* The least position at which pat occurs in data, 0 if it does not.
IndexOf(data, pat) ==
    LET hits == {i \in 1..(Len(data) - Len(pat) + 1) :
                    SubSeq(data, i, i + Len(pat) - 1) = pat}
    IN  IF hits = {} THEN 0 ELSE CHOOSE i \in hits : \A j \in hits : i <= j

\* std::str::from_utf8 on what was read.
Utf8Ok(data) == \A i \in 1..Len(data) : data[i] # InvalidUtf8

\* Where the headers end: "\r\n\r\n" if the data contains it, else "\n\n".
HeadersEnd(data) ==
    IF IndexOf(data, <<CR, LF, CR, LF>>) > 0
    THEN IndexOf(data, <<CR, LF, CR, LF>>)
    ELSE IndexOf(data, <<LF, LF>>)

\* str::lines().next(): up to the first line feed, without a carriage return
\* in front of it; nothing for an empty string.
FirstLine(data) ==
    IF data = <<>> THEN None
    ELSE LET k    == IndexOf(data, <<LF>>)
             line == IF k = 0 THEN data ELSE SubSeq(data, 1, k - 1)
         IN  IF k > 0 /\ line # <<>> /\ line[Len(line)] = CR
             THEN Some(SubSeq(line, 1, Len(line) - 1))
             ELSE Some(line)

\* str::split_whitespace: the maximal runs of tokens that are not whitespace.
RECURSIVE SplitWords(_, _)
SplitWords(s, cur) ==
    IF s = <<>>
    THEN IF cur = <<>> THEN <<>> ELSE <<cur>>
    ELSE IF Head(s) \in Whitespace
         THEN (IF cur = <<>> THEN <<>> ELSE <<cur>>) \o SplitWords(Tail(s), <<>>)
         ELSE SplitWords(Tail(s), Append(cur, Head(s)))

split_whitespace(line) == SplitWords(line, <<>>)

\* A '%' with fewer than two characters after it, at the end of the path.
TruncatedEscape == "%4"

\* Percent-escapes that spell a whole token.
PercentDecoded(tok) ==
    CASE tok = "%2e%2e"  -> ".."
      [] tok = "%61.txt" -> "a.txt"
      [] OTHER           -> tok

\* Request::decode_url.
decode_url(raw) ==
    IF raw # <<>> /\ raw[Len(raw)] = TruncatedEscape
    THEN [ok |-> FALSE, path |-> <<>>]
    ELSE [ok |-> TRUE, path |-> [i \in 1..Len(raw) |-> PercentDecoded(raw[i])]]

\* The method as the router compares it.
MethodName(word) == IF Len(word) = 1 THEN word[1] ELSE "OTHER"

ParseErr(e) == [ok |-> FALSE, err |-> e,
                request |-> [method |-> "", path |-> <<>>, auth |-> None]]

ParseOk(request) == [ok |-> TRUE, err |-> "none", request |-> request]

\* A from_stream that takes the first three fields of any longer line.
from_stream_first_three(headers_data) ==
    LET request_line == FirstLine(headers_data)
    IN  IF ~IsSome(request_line) THEN ParseErr("BadRequest")
        ELSE LET parts == split_whitespace(Unwrap(request_line))
             IN  IF Len(parts) < 3 THEN ParseErr("BadRequest")
                 ELSE LET path == decode_url(parts[2])
                      IN  IF ~path.ok THEN ParseErr("BadRequest")
                          ELSE IF ~StartsWith(parts[3], <<"HTTP/1.">>)
                          THEN ParseErr("BadRequest")
                          ELSE ParseOk([method |-> MethodName(parts[1]),
                                        path |-> path.path, auth |-> None])

\* Request::from_stream after read_headers returned the header text.  The
\* header lines sent in this model carry no Authorization.
from_stream(headers_data) ==
    LET request_line == FirstLine(headers_data)
    IN  IF ~IsSome(request_line) THEN ParseErr("BadRequest")
        ELSE LET parts == split_whitespace(Unwrap(request_line))
             IN  IF Len(parts) # 3 THEN ParseErr("BadRequest")
                 ELSE LET path == decode_url(parts[2])
                      IN  IF ~path.ok THEN ParseErr("BadRequest")
                          ELSE IF ~StartsWith(parts[3], <<"HTTP/1.">>)
                          THEN ParseErr("BadRequest")
                          ELSE ParseOk([method |-> MethodName(parts[1]),
                                        path |-> path.path, auth |-> None])

\* What is written to the connection.
StatusLine(code) == [kind |-> "status", name |-> "", value |-> code]

HeaderLine(name, value) == [kind |-> "header", name |-> name, value |-> value]

BlankLine == [kind |-> "blank", name |-> "", value |-> 0]

BodyWrite(n) == [kind |-> "body", name |-> "", value |-> n]

\* Header lines for names; Content-Length carries len, other values are not
\* modelled.
HeaderLines(names, len) ==
    [i \in 1..Len(names) |->
        HeaderLine(names[i], IF names[i] = "Content-Length" THEN len ELSE 0)]

\* HttpResponse::send of create_error_response(status_code).
send_error_page(status_code) ==
    <<StatusLine(status_code)>>
    \o HeaderLines(create_error_response(status_code).headers, TextBodyLen)
    \o <<BlankLine>>
    \o (IF TextBodyLen > 0 THEN <<BodyWrite(TextBodyLen)>> ELSE <<>>)

\* http.rs send_response of a routed response: order is the order in which
\* the response's header map is iterated, size the file_details.size of a
\* streamed file and file_len its length while it is read.
send_routed(response, order, size, file_len, chunk_size) ==
    LET len    == IF response.body = "stream" THEN size ELSE TextBodyLen
        names  == [i \in 1..Len(response.headers) |-> response.headers[order[i]]]
        chunks == ReadToEnd(0, file_len, chunk_size)
    IN  <<StatusLine(response.status)>>
        \o HeaderLines(<<"Server", "Connection">> \o names \o <<"Content-Length">>, len)
        \o <<BlankLine>>
        \o (IF response.body = "stream"
            THEN [i \in 1..Len(chunks) |-> BodyWrite(Len(chunks[i]))]
            ELSE <<BodyWrite(len)>>)

\* The iteration orders of a HashMap with n entries.
MapOrders(n) == Permutations(1..n)

ConnRequestLines ==
    LET methods  == {<<"GET">>, <<"POST">>}
        paths    == {<<"/">>, <<"/", "a.txt">>, <<"/", "%61.txt">>, <<"/", "c.zip">>,
                     <<"/", "_health">>, <<"/", "%2e%2e">>, <<"/", TruncatedEscape>>}
        versions == {<<"HTTP/1.", "1">>, <<"HTTP/1.", "0">>, <<"HTTP/", "2">>}
        extra    == <<"x">>
    IN  { IF n = 0 THEN <<>>
          ELSE IF n = 1 THEN m
          ELSE IF n = 2 THEN m \o <<SP>> \o p
          ELSE IF n = 3 THEN m \o <<SP>> \o p \o <<SP>> \o v
          ELSE m \o <<SP>> \o p \o <<SP>> \o v \o <<SP>> \o extra :
            m \in methods, p \in paths, v \in versions, n \in 0..4 }

Padding == [i \in 1..PadLen |-> "h"]

\* What follows the request line: the blank line in either form, a line end
\* only, nothing, a header line and the blank line, or header bytes without
\* end.
ConnTails ==
    { <<CR, LF, CR, LF>>, <<LF, LF>>, <<CR, LF>>, <<>>,
      <<CR, LF, "h">> \o <<CR, LF, CR, LF>>,
      <<CR, LF>> \o Padding }

ConnInputs ==
    { pre \o line \o tail :
        pre \in {<<>>, <<InvalidUtf8>>}, line \in ConnRequestLines, tail \in ConnTails }

\* After sending, the client closes its side, stays silent (the 30 s read
\* timeout expires) or resets the connection.
Endings == {"close", "silent", "reset"}

ConnInit ==
    /\ peer \in [sent : ConnInputs, ending : Endings, size : {0, MaxFileSize},
                 grow : 0..MaxGrow, chunk : {MaxChunk}]
    /\ rd = [pc |-> "reading", total_read |-> 0]
    /\ out = <<>>
    /\ cfg \in {NoCredentials, BothCredentials}
    /\ req = [method |-> "GET", path |-> <<"/">>, auth |-> None]
    /\ resp = [status |-> 0, headers |-> <<>>, body |-> "none", target |-> NoTarget,
               looked |-> None]
    /\ rpc = "idle"
    /\ ServerInit
    /\ RangeIdle
    /\ CallIdle

\* handle_client once from_stream returned: an error goes to the error
\* mapper, a request to the router and then to send_response or the mapper.
Respond(parsed, order) ==
    IF ~parsed.ok
    THEN /\ out' = send_error_page(ErrorStatus(parsed.err))
         /\ req' = req
    ELSE LET routed == route_request(parsed.request, cfg.username, cfg.password)
         IN  /\ req' = parsed.request
             /\ out' = IF routed.ok
                       THEN send_routed(routed, order, peer.size,
                                        peer.size + peer.grow, peer.chunk)
                       ELSE send_error_page(ErrorStatus(routed.err))

\* The header map of the response to a parsed request has n entries.
MapSize(parsed) ==
    IF ~parsed.ok THEN 0
    ELSE Len(route_request(parsed.request, cfg.username, cfg.password).headers)

Finish(parsed, total_read) ==
    /\ \E order \in MapOrders(MapSize(parsed)) : Respond(parsed, order)
    /\ rd' = [pc |-> "done", total_read |-> total_read]
    /\ UNCHANGED <<peer, cfg, resp, rpc, rangeVars, callVars, serverVars>>

\* stream.read returns n bytes: the terminator is looked for in everything
\* read so far, then the buffer is tested for being full.
ReadData(n) ==
    /\ rd.pc = "reading"
    /\ n >= 1
    /\ rd.total_read + n <= Len(peer.sent)
    /\ rd.total_read + n <= HeaderBufferSize
    /\ LET total_read == rd.total_read + n
           data       == SubSeq(peer.sent, 1, total_read)
       IN  IF Utf8Ok(data) /\ HeadersEnd(data) > 0
           THEN Finish(from_stream(SubSeq(data, 1, HeadersEnd(data) - 1)), total_read)
           ELSE IF total_read >= HeaderBufferSize
           THEN Finish(ParseErr("BadRequest"), total_read)
           ELSE /\ rd' = [rd EXCEPT !.total_read = total_read]
                /\ UNCHANGED <<peer, out, req, cfg, resp, rpc, rangeVars, callVars,
                               serverVars>>

\* stream.read returns 0: the peer closed after everything it sent was read.
\* With nothing read this is BadRequest; otherwise the loop is left with an
\* empty header text.
ReadEof ==
    /\ rd.pc = "reading"
    /\ rd.total_read = Len(peer.sent)
    /\ peer.ending = "close"
    /\ IF rd.total_read = 0
       THEN Finish(ParseErr("BadRequest"), rd.total_read)
       ELSE Finish(from_stream(<<>>), rd.total_read)

\* stream.read fails: the read timeout expired or the connection was reset.
ReadError ==
    /\ rd.pc = "reading"
    /\ rd.total_read = Len(peer.sent)
    /\ peer.ending \in {"silent", "reset"}
    /\ Finish(ParseErr("Io"), rd.total_read)

ConnNext ==
    \/ \E n \in 1..MaxRead : ReadData(n)
    \/ ReadEof
    \/ ReadError

ConnSpec == ConnInit /\ [][ConnNext]_vars

(***************************************************************************)
(* Further claims about file responses (RangeSpec)                         *)
(***************************************************************************)
\* C21: a GET without a Range header for an allowed file of size S, which
\* does not change while it is served, is answered by the library with one
\* head of status 200 and Content-Length S and with a body that is the file,
\* byte for byte, also when S exceeds the chunk size.
C21_NoRangeRoundTrip ==
    (/\ rangePc = "done"
     /\ rangeReq.impl = "lib"
     /\ ~IsSome(rangeReq.range)
     /\ rangeReq.grow = 0)
    => /\ ~wire.panicked
       /\ wire.heads = <<ResponseHead(200, None, Some(rangeReq.size))>>
       /\ wire.body = [i \in 1..rangeReq.size |-> i - 1]

\* A file of more than one chunk was sent whole.
C21_Witness ==
    /\ rangePc = "done"
    /\ rangeReq.impl = "lib"
    /\ ~IsSome(rangeReq.range)
    /\ rangeReq.grow = 0
    /\ rangeReq.size > rangeReq.chunk
    /\ Len(wire.writes) > 1
    /\ Len(wire.body) = rangeReq.size

\* C26: at most one response status line is ever written on a connection:
\* once the head of a 200 or 206 file response is on the socket, no range
\* check or failure writes a second status line or an error response.
C26_OneStatusLine ==
    rangePc = "done" => Len(wire.heads) <= 1

\* C27: while a file body is streamed every write carries at most chunk_size
\* bytes, and the body bytes written never exceed the Content-Length of the
\* head, also when the file grew after its size was read.
C27_StreamWithinDeclared ==
    (/\ rangePc = "done"
     /\ wire.heads # <<>>
     /\ IsSome(wire.heads[1].content_length))
    => /\ \A i \in 1..Len(wire.writes) : wire.writes[i] <= rangeReq.chunk
       /\ Len(wire.body) <= Unwrap(wire.heads[1].content_length)

(***************************************************************************)
(* Claims about one connection (ConnSpec)                                  *)
(***************************************************************************)
RECURSIVE BodyBytes(_)
BodyBytes(written) ==
    IF written = <<>> THEN 0
    ELSE (IF Head(written).kind = "body" THEN Head(written).value ELSE 0)
         + BodyBytes(Tail(written))

HasHeaderLine(written, name) ==
    \E i \in 1..Len(written) : written[i].kind = "header" /\ written[i].name = name

\* The response is a status line, header lines, one blank line and body
\* writes, in this order.
WellOrdered(written) ==
    /\ written # <<>>
    /\ written[1].kind = "status"
    /\ \E b \in 2..Len(written) :
          /\ written[b].kind = "blank"
          /\ \A i \in 2..(b - 1) : written[i].kind = "header"
          /\ \A i \in (b + 1)..Len(written) : written[i].kind = "body"

\* C22: every response, error or success, in-memory or streamed, is a status
\* line, then headers among which Server, Connection and Content-Length,
\* then the blank line, all before the first body byte, and Content-Length
\* is the number of body bytes of the response.
C22_HeadBeforeBody ==
    rd.pc = "done" =>
       /\ WellOrdered(out)
       /\ HasHeaderLine(out, "Server")
       /\ HasHeaderLine(out, "Connection")
       /\ HasHeaderLine(out, "Content-Length")
       /\ \A i \in 1..Len(out) :
             (out[i].kind = "header" /\ out[i].name = "Content-Length")
                => out[i].value = BodyBytes(out)

\* The same for a file that does not change while it is served.
HeadBeforeBodyOfStableFile == peer.grow = 0 => C22_HeadBeforeBody

(***************************************************************************)
(* Claims about the error mapper                                           *)
(***************************************************************************)
\* The table of the claim.
ExpectedStatus(e) ==
    CASE e = "BadRequest"       -> 400
      [] e = "Unauthorized"     -> 401
      [] e = "Forbidden"        -> 403
      [] e = "NotFound"         -> 404
      [] e = "MethodNotAllowed" -> 405
      [] OTHER                  -> 500

\* The rows for the error kinds the router raises, and the challenge header
\* on 401 and on nothing else.
ErrorTableRows ==
    rpc = "done" =>
       LET routed == route_request(req, cfg.username, cfg.password)
       IN  /\ ~routed.ok => resp.status = ExpectedStatus(routed.err)
           /\ HasHeader(resp, "WWW-Authenticate") <=> resp.status = 401

\* The row for a range that starts at or after the end of the file, in the
\* library, whose mapper the claim is about.
RangeRow ==
    (/\ rangePc = "done"
     /\ rangeReq.impl = "lib"
     /\ IsClosedRange
     /\ RangeStart >= rangeReq.size)
    => \E i \in 1..Len(wire.heads) : wire.heads[i].status = 416

\* C23: the error mapper is a fixed table: BadRequest 400, Unauthorized 401,
\* Forbidden 403, NotFound 404, MethodNotAllowed 405, an unsatisfiable range
\* 416, any other error 500; the 401 response, and only it, carries
\* WWW-Authenticate.
C23_ErrorTable == ErrorTableRows /\ RangeRow

(***************************************************************************)
(* Claims about request parsing (ConnSpec)                                 *)
(***************************************************************************)
\* What read_headers had read when the handler answered.
DataRead == SubSeq(peer.sent, 1, rd.total_read)

\* No blank line was found in it.
Unterminated == ~(Utf8Ok(DataRead) /\ HeadersEnd(DataRead) > 0)

\* C24: headers that are not ended by a blank line before the buffer is
\* full, before the peer closes or before the read timeout expires are
\* answered with 400 Bad Request, never with 500.
C24_UnterminatedIs400 ==
    (/\ rd.pc = "done"
     /\ Unterminated
     /\ (rd.total_read >= HeaderBufferSize \/ peer.ending \in {"close", "silent"}))
    => out[1] = StatusLine(400)

\* The fields of the request line of the header text that was read.
RequestLineFields ==
    LET text == SubSeq(DataRead, 1, HeadersEnd(DataRead) - 1)
        line == FirstLine(text)
    IN  IF IsSome(line) THEN split_whitespace(Unwrap(line)) ELSE <<>>

WellFormedRequestLine ==
    /\ Len(RequestLineFields) = 3
    /\ StartsWith(RequestLineFields[3], <<"HTTP/1.">>)

\* C30: a request line that does not split into exactly three fields, or
\* whose version does not begin with HTTP/1., fails as BadRequest and is
\* answered with 400; only a line of three fields with such a version is
\* accepted.
C30_RequestLineShape ==
    (rd.pc = "done" /\ ~Unterminated)
    => /\ ~WellFormedRequestLine => out[1] = StatusLine(400)
       /\ out[1].value # 400 => (WellFormedRequestLine /\ req.path = decode_url(RequestLineFields[2]).path)

\* A request line of four fields with a good version was answered with 400.
C30_Witness ==
    /\ rd.pc = "done"
    /\ ~Unterminated
    /\ Len(RequestLineFields) = 4
    /\ StartsWith(RequestLineFields[3], <<"HTTP/1.">>)
    /\ out[1] = StatusLine(400)

(***************************************************************************)
(* Claims about the statistics and about rejected connections (Spec)       *)
(***************************************************************************)
\* Connections whose handler ended and whose record_request call returned.
Recorded ==
    Cardinality({i \in 1..Len(conns) : conns[i].st = "done"})
    + Cardinality({w \in WorkerIds : workers[w].pc = "release"})

\* record_request calls between their two increments.
Recording == Cardinality({w \in WorkerIds : workers[w].pc = "record_outcome"})

\* C25: every handled connection adds exactly one to total_requests and
\* exactly one to one of successful_requests and error_requests, so with no
\* record_request call in progress total = successful + error; rejected
\* connections (and connections given up before dispatch) change nothing.
C25_StatsBalance ==
    /\ stats.total_requests = Recorded + Recording
    /\ stats.successful_requests + stats.error_requests = Recorded
    /\ Recording = 0 =>
          stats.total_requests = stats.successful_requests + stats.error_requests

\* No call in progress, a success and an error were recorded, and a
\* connection was rejected.
C25_Witness ==
    /\ Recording = 0
    /\ stats.successful_requests > 0
    /\ stats.error_requests > 0
    /\ \E i \in 1..Len(conns) : conns[i].st = "rejected"

\* A connection is accepted and rejected in this step.
RejectedNow ==
    /\ Len(conns') = Len(conns) + 1
    /\ conns'[Len(conns')].st = "rejected"

\* C28: a connection rejected by the rate limiter is closed by the acceptor
\* at once: it is never queued, never a worker's job, never read or
\* answered (its record never changes), the step that rejects it submits no
\* job and touches no counter, and the acceptor is back at accept.
C28_RejectedClosedAtOnce ==
    /\ [](\A i \in 1..Len(conns) :
            conns[i].st = "rejected" =>
               /\ \A k \in 1..Len(queue) : queue[k] # i
               /\ \A w \in WorkerIds : workers[w].job # i)
    /\ [][/\ \A i \in 1..Len(conns) :
               conns[i].st = "rejected" => conns'[i] = conns[i]
          /\ RejectedNow =>
               /\ queue' = queue
               /\ workers' = workers
               /\ stats' = stats
               /\ acceptor'.pc = "accept"]_vars

\* A connection was rejected and a later one was admitted.
C28_Witness ==
    \E i, j \in 1..Len(conns) :
        /\ i < j
        /\ conns[i].st = "rejected"
        /\ conns[j].admitted

(***************************************************************************)
(* Claims about the sweep (TimedSpec)                                      *)
(***************************************************************************)
\* ip had a connection admitted less than the retention window ago.
AdmittedWithinRetention(ip) == SumTo(recent[ip], RetentionTicks) > 0

\* C29: a sweep removes only entries idle for longer than the retention
\* window: an address that had a connection admitted within the window
\* keeps its entry, with its counters, across the sweep.
C29_SweepKeepsRecent ==
    [][lastSweep' # lastSweep =>
          \A ip \in IPs :
             (ip \in DOMAIN connections /\ AdmittedWithinRetention(ip))
                => /\ ip \in DOMAIN connections'
                   /\ connections'[ip] = connections[ip]]_vars

(***************************************************************************)
(* Request::decode_url character by character (http.rs:147-178).  A raw    *)
(* path is a sequence of characters, each written as its code point.  The  *)
(* token model of the connection (decode_url above) is this function on    *)
(* escapes that spell a whole token.                                       *)
(***************************************************************************)
Percent == 37

Plus == 43

MaxRawLen == 4

\* '%', '+', '/', '1', '4', 'g'
RawChars == {Percent, Plus, 47, 49, 52, 103}

RawPaths == SeqsUpTo(RawChars, MaxRawLen)

\* char::to_digit(16), -1 for a character that is no hexadecimal digit.
HexDigit(c) ==
    IF c >= 48 /\ c <= 57 THEN c - 48
    ELSE IF c >= 97 /\ c <= 102 THEN c - 87
    ELSE IF c >= 65 /\ c <= 70 THEN c - 55
    ELSE -1

IsHex(c) == HexDigit(c) >= 0

\* u8::from_str_radix(&format!("{hex1}{hex2}"), 16): an optional '+' sign,
\* then at least one digit, every character after the sign a digit.
from_str_radix(hex1, hex2) ==
    IF hex1 = Plus
    THEN IF IsHex(hex2) THEN Some(HexDigit(hex2)) ELSE None
    ELSE IF IsHex(hex1) /\ IsHex(hex2)
         THEN Some(16 * HexDigit(hex1) + HexDigit(hex2))
         ELSE None

\* The while loop of decode_url from character i on, decoded so far given.
RECURSIVE DecodeFrom(_, _, _)
DecodeFrom(path, i, decoded) ==
    IF i > Len(path) THEN [ok |-> TRUE, path |-> decoded]
    ELSE IF path[i] = Percent
         THEN IF i + 2 > Len(path)
              THEN [ok |-> FALSE, path |-> <<>>]
              ELSE LET byte_val == from_str_radix(path[i + 1], path[i + 2])
                   IN  IF IsSome(byte_val)
                       THEN DecodeFrom(path, i + 3, Append(decoded, Unwrap(byte_val)))
                       ELSE DecodeFrom(path, i + 3,
                                decoded \o <<path[i], path[i + 1], path[i + 2]>>)
         ELSE DecodeFrom(path, i + 1, Append(decoded, path[i]))

decode_url_chars(path) == DecodeFrom(path, 1, <<>>)

DecodeInit ==
    /\ call \in {[fn |-> "decode_url", arg |-> raw, result |-> <<>>, pc |-> "start"] :
                    raw \in RawPaths}
    /\ snap = Sleeping
    /\ ServerInit
    /\ RouteIdle
    /\ RangeIdle
    /\ ConnIdle

\* from_stream calls decode_url on the second word of the request line.
DecodeUrl ==
    /\ call.pc = "start"
    /\ call.fn = "decode_url"
    /\ call' = [call EXCEPT !.result = decode_url_chars(call.arg), !.pc = "done"]
    /\ UNCHANGED <<req, cfg, resp, rpc, rangeVars, connVars, snap, serverVars>>

DecodeNext == DecodeUrl

DecodeSpec == DecodeInit /\ [][DecodeNext]_vars

\* The decoding the specification describes: an escape of two hexadecimal
\* digits becomes the character, a '%' with fewer than two characters after
\* it is kept with what follows, any other '%' is kept with its two
\* characters.
RECURSIVE LenientFrom(_, _, _)
LenientFrom(path, i, decoded) ==
    IF i > Len(path) THEN decoded
    ELSE IF path[i] = Percent
         THEN IF i + 2 > Len(path)
              THEN decoded \o SubSeq(path, i, Len(path))
              ELSE IF IsHex(path[i + 1]) /\ IsHex(path[i + 2])
                   THEN LenientFrom(path, i + 3,
                            Append(decoded, 16 * HexDigit(path[i + 1]) + HexDigit(path[i + 2])))
                   ELSE LenientFrom(path, i + 3,
                            decoded \o <<path[i], path[i + 1], path[i + 2]>>)
         ELSE LenientFrom(path, i + 1, Append(decoded, path[i]))

\* C31: decode_url never fails; two hexadecimal digits after '%' are
\* decoded, every other '%' sequence, a truncated one at the end of the path
\* included, is passed through literally.
C31_DecodeNeverFails ==
    (call.fn = "decode_url" /\ call.pc = "done")
        => call.result = [ok |-> TRUE, path |-> LenientFrom(call.arg, 1, <<>>)]

\* What holds of decode_url: unless a '%' stands within the last two
\* characters of what is left to decode, it returns a path, and a path
\* without '%' and escapes of two digits are decoded as described.
DecodeOfWellFormed ==
    (/\ call.fn = "decode_url" /\ call.pc = "done"
     /\ \A i \in 1..Len(call.arg) : call.arg[i] = Percent => /\ i + 2 <= Len(call.arg)
                                                             /\ call.arg[i + 1] # Plus
                                                             /\ call.arg[i + 1] # Percent
                                                             /\ call.arg[i + 2] # Percent)
        => call.result = [ok |-> TRUE, path |-> LenientFrom(call.arg, 1, <<>>)]

(***************************************************************************)
(* generate_directory_listing (fs.rs:20-48, 142-158).  A directory is the  *)
(* set of its immediate children; a file name is a sequence of code        *)
(* points.  read_dir yields each child as Ok(entry) or as an error, and    *)
(* fs::metadata of an entry that was read can still fail (a dangling       *)
(* link).                                                                  *)
(***************************************************************************)
MaxChildren == 3

\* "B", "a", "aB", "b"
ChildNames == {<<66>>, <<97>>, <<97, 66>>, <<98>>}

ChildKinds == {"dir", "file"}

ChildStates == {"ok", "entry_error", "metadata_error"}

Directories ==
    { d \in SUBSET [name : ChildNames, kind : ChildKinds, state : ChildStates] :
        /\ Cardinality(d) <= MaxChildren
        /\ \A x \in d, y \in d : x.name = y.name => x = y }

\* Ord for two paths of one directory: the file names compared byte by byte.
RECURSIVE PathLess(_, _)
PathLess(a, b) ==
    IF b = <<>> THEN FALSE
    ELSE IF a = <<>> THEN TRUE
    ELSE IF a[1] # b[1] THEN a[1] < b[1]
    ELSE PathLess(Tail(a), Tail(b))

\* entries.sort()
SortPaths(names) ==
    CHOOSE sorted \in [1..Cardinality(names) -> names] :
        \A i \in 1..Cardinality(names), j \in 1..Cardinality(names) :
            i < j => PathLess(sorted[i], sorted[j])

\* The rows of the table, in order: the entries read_dir yielded are sorted,
\* then a row is made of each entry whose metadata can be read.
generate_directory_listing(dir) ==
    LET entries == SortPaths({c.name : c \in {x \in dir : x.state # "entry_error"}})
        HasRow(name) == \E c \in dir : c.name = name /\ c.state = "ok"
    IN  SelectSeq(entries, HasRow)

ListingInit ==
    /\ call \in {[fn |-> "generate_directory_listing", arg |-> d, result |-> <<>>,
                  pc |-> "start"] : d \in Directories}
    /\ snap = Sleeping
    /\ ServerInit
    /\ RouteIdle
    /\ RangeIdle
    /\ ConnIdle

\* route_request calls generate_directory_listing for a directory.
ListDirectory ==
    /\ call.pc = "start"
    /\ call.fn = "generate_directory_listing"
    /\ call' = [call EXCEPT !.result = generate_directory_listing(call.arg), !.pc = "done"]
    /\ UNCHANGED <<req, cfg, resp, rpc, rangeVars, connVars, snap, serverVars>>

ListingNext == ListDirectory

ListingSpec == ListingInit /\ [][ListingNext]_vars

\* str::to_lowercase on the letters of the model.
ToLower(name) == [i \in 1..Len(name) |-> IF name[i] >= 65 /\ name[i] <= 90
                                         THEN name[i] + 32 ELSE name[i]]

Listed == {call.result[i] : i \in 1..Len(call.result)}

KindOf(name) == (CHOOSE c \in call.arg : c.name = name).kind

ListingDone == call.fn = "generate_directory_listing" /\ call.pc = "done"

\* Every child that can be read has a row, and every row is a child whose
\* entry was read.
ListsReadableChildren ==
    ListingDone =>
        /\ \A c \in call.arg : c.state = "ok" => c.name \in Listed
        /\ \A name \in Listed : \E c \in call.arg : c.name = name /\ c.state # "entry_error"
        /\ \A i \in 1..Len(call.result), j \in 1..Len(call.result) :
              i # j => call.result[i] # call.result[j]

\* C33: the listing has a row for every readable child, all directories
\* before all files and, within each group, the names in case-insensitive
\* alphabetical order; unreadable entries are skipped.
C33_ListingOrder ==
    ListingDone =>
        /\ ListsReadableChildren
        /\ \A i \in 1..Len(call.result), j \in 1..Len(call.result) :
              i < j =>
                 /\ ~(KindOf(call.result[i]) = "file" /\ KindOf(call.result[j]) = "dir")
                 /\ KindOf(call.result[i]) = KindOf(call.result[j])
                       => ~PathLess(ToLower(call.result[j]), ToLower(call.result[i]))

(***************************************************************************)
(* Header fields (http.rs:64-83; main.rs:360-426, 599-600).  A header line *)
(* is a sequence of tokens: a space, a colon, or a piece of text without   *)
(* either.  The lines are those after the request line, without their line *)
(* ends.                                                                   *)
(***************************************************************************)
MaxHeaderLines == 3

ColonTok == ":"

CommaSpace == ", "

HeaderNames == {"Range", "range", "Authorization", "AUTHORIZATION"}

HeaderValues == {<<"v1">>, <<"v2", ColonTok, "v3">>}

HeaderLinesSent ==
    { <<n, ColonTok, SP>> \o v : n \in HeaderNames, v \in HeaderValues }
    \cup { <<SP, n, SP, ColonTok>> \o v \o <<SP>> : n \in HeaderNames, v \in HeaderValues }
    \cup { <<"junk">>, <<SP>>, <<>> }

\* str::trim on a line of tokens.
RECURSIVE TrimStart(_)
TrimStart(s) == IF s # <<>> /\ Head(s) = SP THEN TrimStart(Tail(s)) ELSE s

RECURSIVE TrimEnd(_)
TrimEnd(s) ==
    IF s # <<>> /\ s[Len(s)] = SP THEN TrimEnd(SubSeq(s, 1, Len(s) - 1)) ELSE s

Trim(s) == TrimEnd(TrimStart(s))

\* str::to_lowercase on the names of the model.
LowerTok(tok) ==
    CASE tok = "Range"         -> "range"
      [] tok = "Authorization" -> "authorization"
      [] tok = "AUTHORIZATION" -> "authorization"
      [] OTHER                 -> tok

to_lowercase(s) == [i \in 1..Len(s) |-> LowerTok(s[i])]

\* HashMap::insert and HashMap::get.
Insert(map, key, value) ==
    [k \in DOMAIN map \cup {key} |-> IF k = key THEN value ELSE map[k]]

Get(map, key) == IF key \in DOMAIN map THEN Some(map[key]) ELSE None

\* The loop over the header lines of from_stream, from line i on.
RECURSIVE ParseHeadersFrom(_, _, _)
ParseHeadersFrom(lines, i, headers) ==
    IF i > Len(lines) THEN headers
    ELSE LET line == Trim(lines[i])
             k    == IndexOf(line, <<ColonTok>>)
         IN  IF line = <<>> THEN headers
             ELSE IF k = 0 THEN ParseHeadersFrom(lines, i + 1, headers)
             ELSE LET key   == to_lowercase(Trim(SubSeq(line, 1, k - 1)))
                      value == Trim(SubSeq(line, k + 1, Len(line)))
                  IN  ParseHeadersFrom(lines, i + 1,
                          IF key \in DOMAIN headers
                          THEN Insert(headers, key, headers[key] \o <<CommaSpace>> \o value)
                          ELSE Insert(headers, key, value))

\* The header loop of main.rs handle_client: the name as sent, the last
\* value of a repeated name.
RECURSIVE MainHeadersFrom(_, _, _)
MainHeadersFrom(lines, i, headers_map) ==
    IF i > Len(lines) THEN headers_map
    ELSE LET line == lines[i]
             k    == IndexOf(line, <<ColonTok>>)
         IN  IF line = <<>> THEN headers_map
             ELSE IF k = 0 THEN MainHeadersFrom(lines, i + 1, headers_map)
             ELSE MainHeadersFrom(lines, i + 1,
                      Insert(headers_map, Trim(SubSeq(line, 1, k - 1)),
                             Trim(SubSeq(line, k + 1, Len(line)))))

\* What the code after the parser finds.  The library asks for
\* "authorization" in route_request and never asks for a Range header;
\* main.rs asks for "Range" in serve_file and has no authentication.
HeadersSeen(impl, lines) ==
    IF impl = "lib"
    THEN LET headers == ParseHeadersFrom(lines, 1, <<>>)
         IN  [headers |-> headers,
              authorization |-> Get(headers, <<"authorization">>),
              range |-> None]
    ELSE LET headers_map == MainHeadersFrom(lines, 1, <<>>)
         IN  [headers |-> headers_map,
              authorization |-> None,
              range |-> Get(headers_map, <<"Range">>)]

HeaderInit ==
    /\ call \in {[fn |-> "headers", arg |-> [impl |-> impl, lines |-> lines],
                  result |-> <<>>, pc |-> "start"] :
                    impl \in Impls, lines \in SeqsUpTo(HeaderLinesSent, MaxHeaderLines)}
    /\ snap = Sleeping
    /\ ServerInit
    /\ RouteIdle
    /\ RangeIdle
    /\ ConnIdle

\* The header lines of one request are parsed and looked up.
ParseHeaders ==
    /\ call.pc = "start"
    /\ call.fn = "headers"
    /\ call' = [call EXCEPT !.result = HeadersSeen(call.arg.impl, call.arg.lines),
                            !.pc = "done"]
    /\ UNCHANGED <<req, cfg, resp, rpc, rangeVars, connVars, snap, serverVars>>

HeaderNext == ParseHeaders

HeaderSpec == HeaderInit /\ [][HeaderNext]_vars

\* The lines before the first line that is empty once trimmed.
RECURSIVE FieldLines(_)
FieldLines(lines) ==
    IF lines = <<>> \/ Trim(Head(lines)) = <<>> THEN <<>>
    ELSE <<Head(lines)>> \o FieldLines(Tail(lines))

HasColon(line) == IndexOf(line, <<ColonTok>>) > 0

NameSent(line) == Trim(SubSeq(line, 1, IndexOf(line, <<ColonTok>>) - 1))

ValueSent(line) == Trim(SubSeq(line, IndexOf(line, <<ColonTok>>) + 1, Len(line)))

\* The values sent under a name, letter case ignored, in order of arrival.
ValuesOf(lines, name) ==
    LET Named(line) == HasColon(line) /\ to_lowercase(NameSent(line)) = name
        fields      == SelectSeq(FieldLines(lines), Named)
    IN  [i \in 1..Len(fields) |-> ValueSent(fields[i])]

RECURSIVE JoinValues(_)
JoinValues(values) ==
    IF Len(values) = 1 THEN values[1]
    ELSE values[1] \o <<CommaSpace>> \o JoinValues(Tail(values))

HeadersDone == call.fn = "headers" /\ call.pc = "done"

\* The library's parser: the map holds exactly the lower-cased names sent
\* before the first empty line, each with its values joined in order.
LibraryHeaderMap ==
    (HeadersDone /\ call.arg.impl = "lib") =>
        LET lines == call.arg.lines
            sent  == FieldLines(lines)
            names == {to_lowercase(NameSent(sent[i])) :
                         i \in {j \in 1..Len(sent) : HasColon(sent[j])}}
        IN  /\ DOMAIN call.result.headers = names
            /\ \A name \in names :
                  call.result.headers[name] = JoinValues(ValuesOf(lines, name))

\* An Authorization header is found by the library whatever its letter case.
AuthorizationAnyCase ==
    (HeadersDone /\ call.arg.impl = "lib"
        /\ ValuesOf(call.arg.lines, <<"authorization">>) # <<>>)
        => call.result.authorization
              = Some(JoinValues(ValuesOf(call.arg.lines, <<"authorization">>)))

\* A Range header is found by the code that serves files whatever its
\* letter case.
RangeAnyCase ==
    (HeadersDone /\ ValuesOf(call.arg.lines, <<"range">>) # <<>>)
        => IsSome(call.result.range)

\* C32: header lines are split on the first colon, trimmed, lower-cased by
\* name, repeated names joined with ", " in order, lines without colon
\* skipped, parsing stopped at the first empty line; so Authorization and
\* Range are recognised whatever the letter case of their names.
C32_HeaderFields == LibraryHeaderMap /\ AuthorizationAnyCase /\ RangeAnyCase

\* What holds: the library's map and its lookup of Authorization.
LibraryHeaderParsing == LibraryHeaderMap /\ AuthorizationAnyCase

(***************************************************************************)
(* Further claims about one connection (ConnSpec) and about routing        *)
(* (RouteSpec)                                                             *)
(***************************************************************************)
ContentLengthLines(written) ==
    {i \in 1..Len(written) :
        written[i].kind = "header" /\ written[i].name = "Content-Length"}

\* C34: every response written has exactly one Content-Length header,
\* whether its body is in memory or streamed from a file.
C34_OneContentLength ==
    rd.pc = "done" => Cardinality(ContentLengthLines(out)) = 1

\* What holds: a response whose body is in memory has one Content-Length.
OneContentLengthInMemory ==
    (rd.pc = "done" /\ ~HasHeaderLine(out, "Accept-Ranges"))
        => Cardinality(ContentLengthLines(out)) = 1

\* A request line of three fields with an HTTP/1.x version was read, ended
\* by a blank line, on a server with both credentials; the requests of this
\* specification carry no Authorization header.
UnauthenticatedRequest ==
    /\ rd.pc = "done"
    /\ ~Unterminated
    /\ WellFormedRequestLine
    /\ cfg = BothCredentials

\* C35: with credentials configured, a request without valid credentials
\* gets the same 401 response whatever its path, its method and the served
\* directory.
C35_UnauthorizedSame ==
    UnauthenticatedRequest => out = send_error_page(401)

\* What holds on the connection: the same for every path decode_url accepts.
UnauthorizedSameForDecodedPaths ==
    (UnauthenticatedRequest /\ decode_url(RequestLineFields[2]).ok)
        => out = send_error_page(401)

\* What holds of the router: a parsed request that fails authentication
\* gets one and the same response, and the filesystem is not asked.
UnauthorizedIgnoresRequest ==
    (rpc = "done" /\ AuthFails)
        => /\ resp = create_error_response(401)
           /\ resp.looked = None

\* --username or --password was given.
SomeCredentialConfigured == IsSome(cfg.username) \/ IsSome(cfg.password)

\* C36: whenever a user name or a password is configured, a request without
\* valid credentials is rejected with 401 and nothing is served; a server
\* with only one of the two has no valid credentials at all.
C36_AuthWheneverConfigured ==
    (rpc = "done" /\ SomeCredentialConfigured /\ ~ValidCredentials)
        => IsUnauthorizedResponse(resp)

(***************************************************************************)
(* The statistics reporter (server.rs:294-309, 126-151): a thread that     *)
(* sleeps and calls get_stats, which takes the counters' locks one after   *)
(* the other, while the workers record requests.                           *)
(***************************************************************************)
\* get_stats calls followed within the modelled period.
MaxReports == 1

\* thread::sleep returned; get_stats locks total_requests and copies it.
ReadTotal ==
    /\ snap.pc \in {"sleeping", "reported"}
    /\ snap.reports < MaxReports
    /\ snap' = [pc |-> "read_total", total |-> stats.total_requests,
                successful |-> 0, errors |-> 0, reports |-> snap.reports]
    /\ UNCHANGED <<req, cfg, resp, rpc, rangeVars, connVars, call, serverVars>>

\* get_stats locks successful_requests and copies it.
ReadSuccessful ==
    /\ snap.pc = "read_total"
    /\ snap' = [snap EXCEPT !.pc = "read_successful",
                            !.successful = stats.successful_requests]
    /\ UNCHANGED <<req, cfg, resp, rpc, rangeVars, connVars, call, serverVars>>

\* get_stats locks error_requests and copies it; the tuple is returned and
\* logged.
ReadErrors ==
    /\ snap.pc = "read_successful"
    /\ snap' = [snap EXCEPT !.pc = "reported", !.errors = stats.error_requests,
                            !.reports = @ + 1]
    /\ UNCHANGED <<req, cfg, resp, rpc, rangeVars, connVars, call, serverVars>>

StatsNext ==
    \/ Next
    \/ ReadTotal
    \/ ReadSuccessful
    \/ ReadErrors

StatsSpec == Init /\ [][StatsNext]_vars

\* C37: every snapshot get_stats returns while workers record requests
\* satisfies total_requests = successful_requests + error_requests.
C37_SnapshotBalanced ==
    snap.pc = "reported" => snap.total = snap.successful + snap.errors

\* What holds of a snapshot: no counter is ahead of what was recorded, and
\* the counters read later are not behind the total read first by more than
\* the records in progress when it was read.
SnapshotWithinCounters ==
    snap.pc = "reported" =>
        /\ snap.total <= stats.total_requests
        /\ snap.successful <= stats.successful_requests
        /\ snap.errors <= stats.error_requests
        /\ snap.total <= snap.successful + snap.errors + Threads

(***************************************************************************)
(* Further claims about shutdown (ShutdownSpec) and the pool (Spec)        *)
(***************************************************************************)
\* Connections handed to pool.execute so far.
Dispatched ==
    Cardinality({i \in ConnIds : conns[i].st \in {"queued", "running", "closed", "done"}})

\* C38: the final statistics are read after every queued and in-flight
\* connection was handled and recorded: the total that is read equals the
\* number of connections dispatched to the pool (none is dispatched after
\* the loop was left).
C38_FinalStatsAfterDrain ==
    [][(loop = "stopped" /\ loop' = "stats_read")
          => /\ queue = <<>>
             /\ \A w \in WorkerIds : workers[w].pc = "idle"
             /\ stats.total_requests = Dispatched]_vars

\* What holds: once run_server has returned the counters themselves account
\* for every dispatched connection, and nothing was dispatched after the
\* final statistics were read.
CountersCompleteAtReturn ==
    /\ loop = "returned" => stats.total_requests = Dispatched
    /\ loop \in {"stopped", "stats_read", "closed", "returned"} => acceptor.pc = "accept"

\* A worker thread is alive: waiting for a job or somewhere inside one.
Live(w) == workers[w].pc \in {"idle", "handling", "record_total", "record_outcome", "release"}

\* C39: the pool keeps its N workers: whatever a job comes to (a response,
\* an error response, a caught panic) the worker goes on to the rest of the
\* job and back to the queue, and since no worker holds the receiver's lock
\* while it runs a job, an idle worker can take the next queued job whatever
\* the other workers are doing.
C39_PoolKeepsWorkers ==
    /\ \A w \in WorkerIds : Live(w)
    /\ Cardinality({w \in WorkerIds : Live(w)}) = Threads
    /\ \A w \in WorkerIds : (workers[w].pc = "idle" /\ queue # <<>>) => ENABLED Recv(w)

\* A worker is past a handler that panicked and another job is queued while
\* the other worker is idle.
C39_Witness ==
    \E w \in WorkerIds, v \in WorkerIds :
        /\ workers[w].pc = "release"
        /\ workers[w].outcome = "panic"
        /\ workers[v].pc = "idle"
        /\ queue # <<>>
        /\ ENABLED Recv(v)

\* With a shutdown channel: every worker is alive until the pool's sender
\* is dropped.
WorkersLiveUntilClose ==
    loop \notin {"closed", "returned"} => \A w \in WorkerIds : Live(w)

(***************************************************************************)
(* The arithmetic of serve_file in main.rs (RangeSpec)                     *)
(***************************************************************************)
\* The request has a Range header of the form bytes=a-b or bytes=a-.
ParsedRange ==
    /\ IsSome(rangeReq.range)
    /\ Unwrap(rangeReq.range).form \in {"closed", "open"}

\* The last byte asked for, as an integer: size - 1 for bytes=a-.
AskedEnd ==
    IF Unwrap(rangeReq.range).form = "open" THEN rangeReq.size - 1 ELSE RangeEnd

\* Every Content-Length written is the size of the file in a 200 head or
\* end - start + 1, computed without wrapping, in a 206 head.
LengthsNotWrapped ==
    \A i \in 1..Len(wire.heads) :
        IsSome(wire.heads[i].content_length) =>
            \/ /\ wire.heads[i].status = 200
               /\ Unwrap(wire.heads[i].content_length) = rangeReq.size
            \/ /\ wire.heads[i].status = 206
               /\ ParsedRange
               /\ RangeStart <= AskedEnd
               /\ Unwrap(wire.heads[i].content_length) = AskedEnd - RangeStart + 1

\* C40: serve_file never underflows: size - 1 and end - start + 1 are
\* computed only when size >= 1 and start <= end; an empty file is served
\* as 200 with Content-Length 0, and a range with start > end never yields
\* a wrapped length.
C40_NoUnderflow ==
    (rangePc = "done" /\ rangeReq.impl = "main") =>
        /\ ~wire.panicked
        /\ LengthsNotWrapped
        /\ (rangeReq.size = 0 /\ ~IsSome(rangeReq.range))
              => /\ wire.heads = <<ResponseHead(200, None, Some(0))>>
                 /\ wire.body = <<>>

\* What holds: for a file of at least one byte and a range, if any, with
\* start <= end, nothing overflows and the lengths are exact.
NoUnderflowOfOrderedRange ==
    (/\ rangePc = "done" /\ rangeReq.impl = "main"
     /\ rangeReq.size >= 1
     /\ ParsedRange => RangeStart <= AskedEnd)
    => (~wire.panicked /\ LengthsNotWrapped)
====
